---- MODULE Spec2Model ----
(***************************************************************************)
(* Model of the inframirror reconciliation and asset-posting pipeline:     *)
(* DiffService (app/services/diff_service.py) and JiraPosterService        *)
(* (app/services/jira_poster_service.py) over the document-store           *)
(* collections virtual_machines, jira_virtual_machines,                    *)
(* missing_vms_for_jira and completed_jira_assets.                         *)
(*                                                                         *)
(* Python values are records tagged with their type: Str(s), None, PyInt(n), *)
(* ObjectId(n).  A string that the code strips, prefixes or parses (IP     *)
(* addresses, VM names) is a sequence of one-character strings; a string   *)
(* that the code only copies and compares (labels, keys, status words) is  *)
(* a TLA+ string.                                                          *)
(***************************************************************************)
EXTENDS Integers, Sequences, FiniteSets, TLC

(***************************************************************************)
(* Python values                                                           *)
(***************************************************************************)
None == [t |-> "NoneType"]
Str(s) == [t |-> "str", s |-> s]
PyInt(n) == [t |-> "int", n |-> n]
ObjectId(n) == [t |-> "ObjectId", oid |-> n]

IsStr(v) == v.t = "str"
IsNone(v) == v.t = "NoneType"

\* Python truthiness of the values above
Truthy(v) ==
    CASE v.t = "NoneType" -> FALSE
      [] v.t = "str" -> v.s # <<>>
      [] v.t = "int" -> v.n # 0
      [] OTHER -> TRUE

(***************************************************************************)
(* Character-level string operations (str.strip, str.startswith,           *)
(* str.split) on sequences of characters                                   *)
(***************************************************************************)
Whitespace == {" ", "\t", "\n"}
Digits == {"0", "1", "2", "3", "4", "5", "6", "7", "8", "9"}
HexDigits == Digits \cup {"a", "b", "c", "d", "e", "f", "A", "B", "C", "D", "E", "F"}
DigitChars == <<"0", "1", "2", "3", "4", "5", "6", "7", "8", "9">>

RECURSIVE lstrip(_)
lstrip(s) == IF s # <<>> /\ Head(s) \in Whitespace THEN lstrip(Tail(s)) ELSE s

RECURSIVE rstrip(_)
rstrip(s) ==
    IF s # <<>> /\ s[Len(s)] \in Whitespace THEN rstrip(SubSeq(s, 1, Len(s) - 1)) ELSE s

strip(s) == rstrip(lstrip(s))

startswith(s, prefix) == Len(s) >= Len(prefix) /\ SubSeq(s, 1, Len(prefix)) = prefix

\* s.split(c): the pieces of s between the occurrences of character c
RECURSIVE split(_, _)
split(s, c) ==
    IF \E i \in 1..Len(s) : s[i] = c
    THEN LET i == CHOOSE k \in 1..Len(s) : s[k] = c /\ \A j \in 1..(k - 1) : s[j] # c
         IN  <<SubSeq(s, 1, i - 1)>> \o split(SubSeq(s, i + 1, Len(s)), c)
    ELSE <<s>>

DigitVal(c) == (CHOOSE i \in 1..10 : DigitChars[i] = c) - 1

RECURSIVE DecimalValue(_)
DecimalValue(s) ==
    IF s = <<>> THEN 0
    ELSE 10 * DecimalValue(SubSeq(s, 1, Len(s) - 1)) + DigitVal(s[Len(s)])

(***************************************************************************)
(* ipaddress.ip_address of the standard library: the string parses as an   *)
(* IPv4 dotted quad or as an IPv6 address (scope ids and embedded IPv4     *)
(* suffixes are outside the alphabet used here and rejected)               *)
(***************************************************************************)
ParsesOctet(o) ==
    /\ o # <<>>
    /\ \A i \in 1..Len(o) : o[i] \in Digits
    /\ Len(o) <= 3
    /\ ~(o # <<"0">> /\ o[1] = "0")
    /\ DecimalValue(o) <= 255

ParsesIPv4(s) ==
    LET octets == split(s, ".")
    IN  /\ Len(octets) = 4
        /\ \A i \in 1..4 : ParsesOctet(octets[i])

ParsesHextet(h) ==
    /\ h # <<>>
    /\ Len(h) <= 4
    /\ \A i \in 1..Len(h) : h[i] \in HexDigits

ParsesIPv6(s) ==
    LET parts == split(s, ":")
        n == Len(parts)
        skips == {i \in 2..(n - 1) : parts[i] = <<>>}
    IN  /\ n >= 3
        /\ n <= 9
        /\ Cardinality(skips) <= 1
        /\ IF skips # {}
           THEN LET skip == CHOOSE i \in skips : TRUE
                    hi0 == skip - 1
                    lo0 == n - skip
                    hi == IF parts[1] = <<>> THEN hi0 - 1 ELSE hi0
                    lo == IF parts[n] = <<>> THEN lo0 - 1 ELSE lo0
                IN  /\ (parts[1] = <<>> => hi = 0)
                    /\ (parts[n] = <<>> => lo = 0)
                    /\ 8 - (hi + lo) >= 1
                    /\ \A i \in 1..hi : ParsesHextet(parts[i])
                    /\ \A i \in (n - lo + 1)..n : ParsesHextet(parts[i])
           ELSE /\ n = 8
                /\ \A i \in 1..8 : ParsesHextet(parts[i])

ip_address_parses(s) == ParsesIPv4(s) \/ ParsesIPv6(s)

\* DiffService.is_valid_ip: the prefixes that disqualify a parsed address
invalid_ranges ==
    { <<"1", "2", "7", ".">>,
      <<"0", ".", "0", ".", "0", ".", "0">>,
      <<"2", "5", "5", ".", "2", "5", "5", ".", "2", "5", "5", ".", "2", "5", "5">>,
      <<"1", "6", "9", ".", "2", "5", "4", ".">> }

\* a mutant of is_valid_ip: the parsed address is not tested against the ranges
is_valid_ip_any_range(ip) ==
    /\ IsStr(ip)
    /\ ip.s # <<>>
    /\ LET s == strip(ip.s)
       IN  /\ s # <<>>
           /\ ip_address_parses(s)

is_valid_ip(ip) ==
    /\ IsStr(ip)
    /\ ip.s # <<>>
    /\ LET s == strip(ip.s)
       IN  /\ s # <<>>
           /\ ip_address_parses(s)
           /\ \A inv \in invalid_ranges : ~startswith(s, inv)

(***************************************************************************)
(* String literals of the source, as character sequences                   *)
(***************************************************************************)
UNKNOWN == <<"U", "n", "k", "n", "o", "w", "n">>
VM_PREFIX == <<"V", "M", "_">>
YOUR_TOKEN_HERE == <<"y", "o", "u", "r", "_", "t", "o", "k", "e", "n", "_", "h", "e", "r", "e">>
NO_OBJECTKEY_FOUND ==
    <<"N", "o", " ", "O", "b", "j", "e", "c", "t", "K", "e", "y", " ", "f", "o", "u", "n", "d">>
DEFAULT_OBJECT_TYPE_ID == <<"3", "1", "9", "1">>
DEFAULT_OBJECT_SCHEMA_ID == <<"2", "4", "2">>

UpperCase == <<"A", "B", "C", "D", "E", "F", "G", "H", "I", "J", "K", "L", "M",
               "N", "O", "P", "Q", "R", "S", "T", "U", "V", "W", "X", "Y", "Z">>
LowerCase == <<"a", "b", "c", "d", "e", "f", "g", "h", "i", "j", "k", "l", "m",
               "n", "o", "p", "q", "r", "s", "t", "u", "v", "w", "x", "y", "z">>

lower(s) ==
    [i \in 1..Len(s) |->
        IF \E k \in 1..26 : UpperCase[k] = s[i]
        THEN LowerCase[CHOOSE k \in 1..26 : UpperCase[k] = s[i]]
        ELSE s[i]]

\* sub in s
contains(s, sub) ==
    \E i \in 1..(Len(s) - Len(sub) + 1) : SubSeq(s, i, i + Len(sub) - 1) = sub

RECURSIVE IntToChars(_)
IntToChars(n) ==
    IF n < 10 THEN <<DigitChars[n + 1]>>
    ELSE IntToChars(n \div 10) \o <<DigitChars[(n % 10) + 1]>>

\* str(x) of a value whose text the code goes on to use as characters
StrChars(v) ==
    CASE v.t = "str" -> v
      [] v.t = "int" -> Str(IntToChars(v.n))
      [] OTHER -> Str(<<"N", "o", "n", "e">>)

\* dict.get(key, default) and the dict update of a $set
Get(d, k, default) == IF k \in DOMAIN d THEN d[k] ELSE default
SetFields(d, upd) == upd @@ d

\* x or y
Or(x, y) == IF Truthy(x) THEN x ELSE y

Min(S) == CHOOSE m \in S : \A k \in S : m <= k

(***************************************************************************)
(* Bounds and the inputs the handlers are run on                           *)
(***************************************************************************)
MaxVMs == 2        \* hypervisor VM documents in the collection
MaxOps == 5        \* handlers started in one behaviour
MaxRuns == 2       \* background runs handed to the thread pool in one behaviour
RetryThreshold == 2    \* max_retries of the retry passes of one behaviour

IP_X == <<"1", "0", ".", "1", ".", "1", ".", "1">>
IP_Y == <<"1", "0", ".", "1", ".", "1", ".", "2">>
IP_Y_PADDED == <<" ", "1", "0", ".", "1", ".", "1", ".", "2", " ">>
IP_LOOPBACK == <<"1", "2", "7", ".", "0", ".", "0", ".", "1">>

\* the address fields of a hypervisor VM document
IpShapes ==
    { [ip_address |-> Str(IP_X), guest_ip_addresses |-> <<>>, networks |-> <<>>],
      [ip_address |-> Str(IP_LOOPBACK), guest_ip_addresses |-> <<>>, networks |-> <<>>],
      [ip_address |-> None, guest_ip_addresses |-> <<Str(IP_Y)>>, networks |-> <<>>],
      [ip_address |-> None, guest_ip_addresses |-> <<>>,
       networks |-> <<[ip_address |-> Str(IP_Y)]>>],
      [ip_address |-> Str(IP_X), guest_ip_addresses |-> <<Str(IP_Y)>>, networks |-> <<>>],
      [ip_address |-> None, guest_ip_addresses |-> <<>>, networks |-> <<>>] }

\* the name of the i-th VM: its own, or the first VM's (a duplicate name)
VmNames(i) == {<<"v", "1">>, <<"v">> \o IntToChars(i)}

\* the i-th extracted VM: uuid and vmid by position
VmDoc(i, name, shape, tags) ==
    [ uuid |-> Str(<<"u">> \o IntToChars(i)),
      mobid |-> Str(<<"m">> \o IntToChars(i)),
      vmid |-> Str(<<"v", "m", "-">> \o IntToChars(i)),
      name |-> Str(name),
      cpu_count |-> PyInt(2),
      memory_gb |-> PyInt(4),
      disks |-> <<[capacity_gb |-> PyInt(40)], [capacity_gb |-> PyInt(60)]>>,
      annotation |-> Str(<<>>),
      resource_pool |-> Str(<<"p">>),
      guest_os |-> tags.guest_os,
      tags |-> <<>>,
      tags_jira_asset |-> tags.tags_jira_asset ] @@ shape

NoTags == [guest_os |-> Str(<<>>), tags_jira_asset |-> <<>>]

RECURSIVE VcenterContents(_)
VcenterContents(n) ==
    IF n = 0 THEN {<<>>}
    ELSE LET shorter == VcenterContents(n - 1)
         IN  shorter \cup
             { Append(vms, VmDoc(n, name, shape, NoTags)) :
                 vms \in {v \in shorter : Len(v) = n - 1},
                 name \in VmNames(n), shape \in IpShapes }

\* catalog VM documents the catalog collection can store
JiraPool ==
    { [ip_address |-> Str(IP_X), secondary_ip |-> None, secondary_ip2 |-> None],
      [ip_address |-> None, secondary_ip |-> Str(IP_Y_PADDED), secondary_ip2 |-> None] }

NoRefdata == [ty \in {"3006", "3233", "3236"} |-> [ok |-> FALSE]]

\* the catalog's answers to a creation POST
OBJECT_KEY == <<"V", "M", "-", "7">>
Answers ==
    { [kind |-> "http", status_code |-> 201, body |-> [objectKey |-> Str(OBJECT_KEY)]],
      [kind |-> "http", status_code |-> 401],
      [kind |-> "http", status_code |-> 500],
      [kind |-> "timeout"] }

(***************************************************************************)
(* The state: the four collections, the reconciliation engine's runtime    *)
(* configuration, the catalog's reference data, and the posting run        *)
(***************************************************************************)
VARIABLES
    vcenter,        \* virtual_machines: sequence of hypervisor VM documents
    jira,           \* jira_virtual_machines: sequence of catalog VM documents
    missing,        \* missing_vms_for_jira (staging), in insertion order
    completed,      \* completed_jira_assets, in insertion order
    current_object_type_id,     \* DiffService.current_object_type_id
    current_object_schema_id,   \* DiffService.current_object_schema_id
    jira_service_token,         \* DiffService.jira_service.token
    refdata,        \* the catalog's answer to fetch_data_from_api, by ITAM object type
    next_id,        \* next ObjectId the store hands out
    clock,          \* datetime.utcnow(), as a counter
    poster,         \* the posting run in progress
    diff_result,    \* what the last process_vm_diff returned and logged
    last_post,      \* the last turn of the posting loop: document, answer, run
    last_op,        \* the handler (or handler step) that ran last
    ops,            \* handlers started so far
    response,       \* the HTTP answer of the last endpoint call
    background,     \* BackgroundTasks: the runs handed to the thread pool
    store_reachable,    \* whether the document store answers
    upsert_result,  \* the last bulk_upsert_vms call: its batch and its counts
    call,           \* the last call of a helper function: its argument and its value
    collection,     \* the hypervisor collection run in progress
    jira_service    \* the JiraService instance in use: its settings and its session

vars == <<vcenter, jira, missing, completed, current_object_type_id,
          current_object_schema_id, jira_service_token, refdata, next_id, clock,
          poster, diff_result, last_post, last_op, ops,
          response, background, store_reachable, upsert_result, call, collection, jira_service>>

\* the state of the API layer and of the hypervisor-VM writer
apiVars == <<response, background, store_reachable, upsert_result, call, collection, jira_service>>

(***************************************************************************)
(* DiffService: IP indexes and missing-VM determination                    *)
(***************************************************************************)
\* the "SAFE NAME HANDLING" of a hypervisor VM document
vm_name_of(vm) ==
    IF Truthy(Get(vm, "name", None))
    THEN strip(StrChars(vm.name).s)
    ELSE VM_PREFIX \o StrChars(Or(Get(vm, "vmid", None), Str(UNKNOWN))).s

\* the "SAFE IP HANDLING" of the primary address: stripped text, or ''
vm_ip_of(vm) ==
    IF Truthy(Get(vm, "ip_address", None))
    THEN Str(strip(StrChars(vm.ip_address).s))
    ELSE Str(<<>>)

guest_ips_of(vm) == Get(vm, "guest_ip_addresses", <<>>)

\* every network descriptor's ip_address
network_ips_of(vm) ==
    LET networks == Get(vm, "networks", <<>>)
    IN  [i \in 1..Len(networks) |-> Get(networks[i], "ip_address", None)]

\* get_vcenter_vms_by_ip()['all_vms']: the documents with a non-empty name
all_vms_of(vms) == SelectSeq(vms, LAMBDA vm : vm_name_of(vm) # <<>>)

\* an entry of a list of addresses, cleaned, when it is a usable key
CleanValid(ip) == Truthy(ip) /\ IsStr(ip) /\ strip(ip.s) # <<>> /\ is_valid_ip(Str(strip(ip.s)))

\* get_jira_vms_by_ip(): the set of valid, stripped catalog addresses
get_jira_vms_by_ip(recs) ==
    { strip(ip.s) :
        ip \in { ip \in UNION { { Get(recs[i], "ip_address", None),
                                  Get(recs[i], "secondary_ip", None),
                                  Get(recs[i], "secondary_ip2", None) } : i \in 1..Len(recs) } :
                 CleanValid(ip) } }

match_primary(vm, jira_ips) ==
    /\ Truthy(vm_ip_of(vm))
    /\ is_valid_ip(vm_ip_of(vm))
    /\ vm_ip_of(vm).s \in jira_ips

match_list(ips, jira_ips) ==
    \E i \in 1..Len(ips) : CleanValid(ips[i]) /\ strip(ips[i].s) \in jira_ips

\* steps 1-3 of the matching: primary, then guest, then network addresses
found_in_jira_primary_only(vm, jira_ips) == match_primary(vm, jira_ips)

found_in_jira(vm, jira_ips) ==
    \/ match_primary(vm, jira_ips)
    \/ match_list(guest_ips_of(vm), jira_ips)
    \/ match_list(network_ips_of(vm), jira_ips)

\* "Check if VM has any valid IP": the primary and the guest addresses
has_valid_ip_always(vm) == TRUE

has_valid_ip(vm) ==
    \/ (Truthy(vm_ip_of(vm)) /\ is_valid_ip(vm_ip_of(vm)))
    \/ \E i \in 1..Len(guest_ips_of(vm)) : CleanValid(guest_ips_of(vm)[i])

\* missing_vms[vm_name] = vm_data on an insertion-ordered dict
DictSet(d, k, v) ==
    IF \E i \in 1..Len(d) : d[i].key = k
    THEN [i \in 1..Len(d) |-> IF d[i].key = k THEN [key |-> k, value |-> v] ELSE d[i]]
    ELSE Append(d, [key |-> k, value |-> v])

\* the loop over all_vms: the missing dict and the two tallies
RECURSIVE classify(_, _, _)
classify(vms, jira_ips, acc) ==
    IF vms = <<>> THEN acc
    ELSE LET vm == Head(vms)
             next ==
                 IF found_in_jira(vm, jira_ips)
                 THEN [acc EXCEPT !.found_by_ip = @ + 1]
                 ELSE IF has_valid_ip(vm)
                      THEN [acc EXCEPT !.missing_vms = DictSet(@, vm_name_of(vm), vm)]
                      ELSE [acc EXCEPT !.no_ip_vms = @ + 1]
         IN  classify(Tail(vms), jira_ips, next)

\* cleanup_resolved_missing_vms_ip_only: the staging documents that stay
resolved_names(staging, jira_ips) ==
    { strip(staging[i].vm_name) :
        i \in { i \in 1..Len(staging) :
                  LET vm_ip == strip(Get(Get(staging[i], "vm_summary", <<>>), "ip", Str(<<>>)).s)
                  IN  vm_ip # <<>> /\ vm_ip \in jira_ips } }

cleanup_resolved_missing_vms_ip_only(staging, jira_ips) ==
    SelectSeq(staging, LAMBDA doc : doc.vm_name \notin resolved_names(staging, jira_ips))

\* find_missing_vms_ip_only: the missing dict, the logged tallies and the
\* staging collection it leaves (the cleanup runs only past the "Debug check")
find_missing_vms_ip_only(vms, recs, staging) ==
    LET all_vms == all_vms_of(vms)
        jira_ips == get_jira_vms_by_ip(recs)
        empty == [missing_vms |-> <<>>, found_by_ip |-> 0, no_ip_vms |-> 0]
    IN  IF Len(all_vms) = 0
        THEN empty @@ [staging |-> staging]
        ELSE classify(all_vms, jira_ips, empty)
                 @@ [staging |-> cleanup_resolved_missing_vms_ip_only(staging, jira_ips)]

(***************************************************************************)
(* JiraService.get_itam_number_by_label and the payload construction       *)
(***************************************************************************)
\* get_object_key_by_label: the objectKey of the first entry carrying the label
get_object_key_by_label(data, label) ==
    LET entries == data.objectEntries
        hits == {i \in 1..Len(entries) : Truthy(entries[i].label) /\ entries[i].label = label}
    IN  IF hits = {} THEN None ELSE entries[Min(hits)].objectKey

get_itam_number_by_label(token, label, object_type_id) ==
    IF ~Truthy(token) \/ token = Str(YOUR_TOKEN_HERE)
    THEN None
    ELSE LET data == refdata[object_type_id]
         IN  IF ~data.ok
             THEN None
             ELSE LET object_key == get_object_key_by_label(data, label)
                  IN  IF Truthy(object_key) /\ ~startswith(object_key.s, NO_OBJECTKEY_FOUND)
                      THEN object_key
                      ELSE None

\* extract_tag_value: the value of the first dict of the array that has the key
extract_tag_value(vm_data, tag_key, array_name) ==
    LET tag_arrays == Get(vm_data, array_name, <<>>)
        hits == {i \in 1..Len(tag_arrays) : tag_key \in DOMAIN tag_arrays[i]}
    IN  IF hits = {} THEN None ELSE tag_arrays[Min(hits)][tag_key]

map_vcenter_os_to_jira_os(guest_os) ==
    IF ~Truthy(guest_os) THEN None
    ELSE LET g == lower(guest_os.s)
         IN  CASE contains(g, <<"r", "e", "d", " ", "h", "a", "t">>)
                    \/ contains(g, <<"r", "h", "e", "l">>) -> Str(<<"R", "H", "E", "L">>)
               [] contains(g, <<"c", "e", "n", "t", "o", "s">>) -> Str(<<"C", "e", "n", "t", "o", "s">>)
               [] contains(g, <<"o", "r", "a", "c", "l", "e">>) -> Str(<<"O", "E", "L">>)
               [] contains(g, <<"w", "i", "n", "d", "o", "w", "s">>) ->
                      Str(<<"W", "i", "n", "d", "o", "w", "s">>)
               [] OTHER -> None

\* the three "GET ITAM NUMBERS" blocks: the value embedded for one classification
itam_of(token, value, object_type_id) ==
    IF Truthy(value)
    THEN LET itam_result == get_itam_number_by_label(token, value, object_type_id)
         IN  IF Truthy(itam_result) THEN itam_result
             ELSE get_itam_number_by_label(token, Str(UNKNOWN), object_type_id)
    ELSE Or(get_itam_number_by_label(token, Str(UNKNOWN), object_type_id), Str(UNKNOWN))

RECURSIVE SumCapacity(_)
SumCapacity(disks) ==
    IF disks = <<>> THEN 0
    ELSE Or(Get(Head(disks), "capacity_gb", PyInt(0)), PyInt(0)).n + SumCapacity(Tail(disks))

Attr(id, v) == [objectTypeAttributeId |-> id, objectAttributeValues |-> <<[value |-> v]>>]

create_jira_asset_payload(vm_data, token, type_id, schema_id) ==
    LET vm_name == strip(Get(vm_data, "name", Str(<<>>)).s)
        site == Or(extract_tag_value(vm_data, "Site", "tags_jira_asset"), Str(UNKNOWN))
        zone == Or(extract_tag_value(vm_data, "Zone", "tags_jira_asset"), Str(UNKNOWN))
        vm_environment ==
            Or(extract_tag_value(vm_data, "Environment", "tags_jira_asset"), Str(UNKNOWN))
        ip_address == Or(Get(vm_data, "ip_address", Str(<<>>)), Str(<<>>))
        created_by == Or(extract_tag_value(vm_data, "CreatedBy", "tags"), Str(UNKNOWN))
        \* mobid, vm_id and instance_uuid are not among the projected fields
        vmid == Or(Get(vm_data, "vmid", None), Str(UNKNOWN))
        cpu == Or(Get(vm_data, "cpu_count", PyInt(0)), PyInt(0))
        memory == Or(Get(vm_data, "memory_gb", PyInt(0)), PyInt(0))
        disk == PyInt(SumCapacity(Get(vm_data, "disks", <<>>)))
        description == Or(Get(vm_data, "annotation", Str(<<>>)), Str(<<>>))
        resource_pool == Or(Get(vm_data, "resource_pool", Str(<<>>)), Str(<<>>))
        system_value == extract_tag_value(vm_data, "System", "tags_jira_asset")
        component_value == extract_tag_value(vm_data, "Component", "tags_jira_asset")
        os_tag == Or(Or(extract_tag_value(vm_data, "OperatingSystem", "tags_jira_asset"),
                        extract_tag_value(vm_data, "OS", "tags_jira_asset")),
                     extract_tag_value(vm_data, "Osname", "tags_jira_asset"))
        os_value == IF Truthy(os_tag) THEN os_tag
                    ELSE map_vcenter_os_to_jira_os(Get(vm_data, "guest_os", Str(<<>>)))
        system_itam == itam_of(token, system_value, "3006")
        component_itam == itam_of(token, component_value, "3233")
        osname_itam == itam_of(token, os_value, "3236")
    IN  [ jira_payload |->
            [ objectTypeId |-> type_id,
              objectSchemaId |-> schema_id,
              attributes |-> <<
                  Attr(14590, Str(vm_name)),
                  Attr(14591, Str(vm_name)),
                  Attr(14594, site),
                  Attr(14595, zone),
                  Attr(14596, vm_environment),
                  Attr(14599, ip_address),
                  Attr(14611, created_by),
                  Attr(14780, component_itam),
                  Attr(14603, StrChars(cpu)),
                  Attr(14604, StrChars(memory)),
                  Attr(14605, StrChars(disk)),
                  Attr(14606, description),
                  Attr(14612, resource_pool),
                  Attr(14820, osname_itam),
                  Attr(14817, system_itam),
                  Attr(15636, StrChars(vmid)) >> ],
          debug_info |->
            [ source_system_value |-> system_value,
              source_component_value |-> component_value,
              source_os_value |-> os_value,
              vcenter_uuid |-> Get(vm_data, "uuid", None) ],
          vm_data_summary |-> [ name |-> Str(vm_name), ip |-> ip_address ] ]

(***************************************************************************)
(* save_missing_vms_to_mongodb: one upsert by vm_name per missing VM       *)
(***************************************************************************)
\* UpdateOne({'vm_name': vm_name}, {'$set': document}, upsert=True)
upsert_by_vm_name(staging, document, new_id) ==
    LET hits == {i \in 1..Len(staging) : staging[i].vm_name = document.vm_name}
    IN  IF hits = {}
        THEN Append(staging, SetFields([_id |-> ObjectId(new_id)], document))
        ELSE [staging EXCEPT ![Min(hits)] = SetFields(@, document)]

RECURSIVE save_missing_vms_to_mongodb(_, _, _, _, _, _, _)
save_missing_vms_to_mongodb(missing_vms, staging, token, type_id, schema_id, id, now) ==
    IF missing_vms = <<>>
    THEN [staging |-> staging, next_id |-> id, clock |-> now, processed |-> 0, errors |-> 0]
    ELSE LET vm_name == Head(missing_vms).key
             payload_data ==
                 create_jira_asset_payload(Head(missing_vms).value, token, type_id, schema_id)
             document ==
                 [ vm_name |-> vm_name,
                   jira_asset_payload |-> payload_data.jira_payload,
                   debug_info |-> payload_data.debug_info,
                   vm_summary |-> payload_data.vm_data_summary,
                   status |-> "pending_creation",
                   created_date |-> now,
                   schema_config |-> [object_type_id |-> type_id, object_schema_id |-> schema_id] ]
             fresh == \A i \in 1..Len(staging) : staging[i].vm_name # vm_name
             rest == save_missing_vms_to_mongodb(
                         Tail(missing_vms), upsert_by_vm_name(staging, document, id),
                         token, type_id, schema_id, IF fresh THEN id + 1 ELSE id, now + 1)
         IN  [rest EXCEPT !.processed = @ + 1]

(***************************************************************************)
(* DiffService.process_vm_diff, the whole handler                          *)
(***************************************************************************)
\* set_schema_config, then the JiraService rebuilt when any argument is given
schema_after(current, override) == IF Truthy(override) THEN override ELSE current

token_after(current, token, type_id, schema_id, other_given) ==
    IF Truthy(token) \/ Truthy(type_id) \/ Truthy(schema_id) \/ other_given
    THEN Or(token, Str(YOUR_TOKEN_HERE))
    ELSE current

ProcessVmDiff(token, object_type_id, object_schema_id, other_given) ==
    /\ poster.pc = "idle"
    /\ ops < MaxOps
    /\ LET type_id == schema_after(current_object_type_id, object_type_id)
           schema_id == schema_after(current_object_schema_id, object_schema_id)
           tok == token_after(jira_service_token, token, object_type_id, object_schema_id,
                              other_given)
           found == find_missing_vms_ip_only(vcenter, jira, missing)
           saved == save_missing_vms_to_mongodb(found.missing_vms, found.staging, tok,
                                                type_id, schema_id, next_id, clock)
       IN  /\ current_object_type_id' = type_id
           /\ current_object_schema_id' = schema_id
           /\ jira_service_token' = tok
           /\ missing' = saved.staging
           /\ next_id' = saved.next_id
           /\ clock' = saved.clock
           /\ diff_result' =
                [ status |-> "success",
                  total_vcenter_vms |-> Len(all_vms_of(vcenter)),
                  total_jira_vms |-> Cardinality(get_jira_vms_by_ip(jira)),
                  missing_vms_count |-> Len(found.missing_vms),
                  processed_missing_vms |-> saved.processed,
                  errors |-> saved.errors,
                  object_type_id |-> type_id,
                  object_schema_id |-> schema_id,
                  given_object_type_id |-> object_type_id,
                  given_object_schema_id |-> object_schema_id,
                  found_by_ip |-> found.found_by_ip,
                  no_ip_vms |-> found.no_ip_vms,
                  staged |-> [i \in 1..Len(found.missing_vms) |-> found.missing_vms[i].key] ]
    /\ last_op' = "process_vm_diff"
    /\ ops' = ops + 1
    /\ UNCHANGED apiVars
    /\ UNCHANGED <<vcenter, jira, completed, refdata, poster, last_post>>

(***************************************************************************)
(* The collections' other writers: catalog collection and bulk deletes     *)
(***************************************************************************)
\* a catalog VM stored by the catalog collection pipeline
CollectJiraVm(rec) ==
    /\ poster.pc = "idle"
    /\ \A i \in 1..Len(jira) : jira[i] # rec
    /\ jira' = Append(jira, rec)
    /\ last_op' = "collect_jira_vms"
    /\ UNCHANGED apiVars
    /\ UNCHANGED <<vcenter, missing, completed, current_object_type_id,
                   current_object_schema_id, jira_service_token, refdata, next_id, clock,
                   poster, diff_result, last_post, ops>>

\* DatabaseService.delete_all_vms
DeleteAllVms ==
    /\ poster.pc = "idle"
    /\ vcenter # <<>>
    /\ vcenter' = <<>>
    /\ last_op' = "delete_all_vms"
    /\ UNCHANGED apiVars
    /\ UNCHANGED <<jira, missing, completed, current_object_type_id,
                   current_object_schema_id, jira_service_token, refdata, next_id, clock,
                   poster, diff_result, last_post, ops>>

(***************************************************************************)
(* JiraPosterService                                                       *)
(***************************************************************************)
Txt(w) == [t |-> "str", w |-> w]

\* a mutant of sort_created_date: newest first
sort_created_date_descending(docs) ==
    SortSeq(docs, LAMBDA a, b : a.created_date > b.created_date)

\* find(query).sort('created_date', 1), cut at limit when limit is truthy
sort_created_date(docs) == SortSeq(docs, LAMBDA a, b : a.created_date < b.created_date)

get_pending_vms(staging, limit) ==
    LET pending == sort_created_date(
                       SelectSeq(staging, LAMBDA doc : doc.status = "pending_creation"))
    IN  IF limit # 0 /\ Len(pending) > limit THEN SubSeq(pending, 1, limit) ELSE pending

\* a mutant of post_request: the payload is posted whatever it is
post_request_unchecked(vm_doc) ==
    Get(vm_doc, "jira_asset_payload", <<>>)

\* the body post_vm_to_jira hands to session.post, or None when it returns
\* before the POST: vm_doc.get('jira_asset_payload', {}) is falsy
post_request(vm_doc) ==
    LET jira_payload == Get(vm_doc, "jira_asset_payload", <<>>)
    IN  IF jira_payload = <<>> \/ jira_payload = None THEN None ELSE jira_payload

\* post_vm_to_jira: the result dict for the catalog's answer to the POST
post_vm_to_jira(vm_doc, answer) ==
    LET vm_name == Get(vm_doc, "vm_name", Str(UNKNOWN))
    IN  IF post_request(vm_doc) = None
        THEN [success |-> FALSE, error |-> Txt("Jira payload is empty")]
        ELSE CASE answer.kind = "timeout" ->
                    [success |-> FALSE, error |-> Txt("Request timeout"), vm_name |-> vm_name]
               [] answer.kind = "exception" ->
                    [success |-> FALSE, error |-> Txt("Exception"), vm_name |-> vm_name]
               [] answer.status_code = 201 ->
                    [ success |-> TRUE,
                      object_key |-> Get(answer.body, "objectKey", Str(UNKNOWN)),
                      response_data |-> answer.body,
                      vm_name |-> vm_name ]
               [] answer.status_code = 400 ->
                    [ success |-> FALSE, error |-> Txt("Validation error"),
                      status_code |-> PyInt(400), vm_name |-> vm_name ]
               [] answer.status_code = 401 ->
                    [ success |-> FALSE, error |-> Txt("Authorization failed - token invalid"),
                      status_code |-> PyInt(401), vm_name |-> vm_name ]
               [] OTHER ->
                    [ success |-> FALSE, error |-> Txt("HTTP error"),
                      status_code |-> PyInt(answer.status_code), vm_name |-> vm_name ]

\* the document move_to_completed inserts
completed_doc_of(vm_doc, post_result) ==
    SetFields([k \in DOMAIN vm_doc \ {"_id"} |-> vm_doc[k]],
              [ status |-> "completed",
                jira_object_key |-> Get(post_result, "object_key", None),
                jira_response |-> Get(post_result, "response_data", None),
                original_id |-> Get(vm_doc, "_id", None),
                processing_completed |-> TRUE ])

delete_one(coll, id) ==
    LET hits == {i \in 1..Len(coll) : coll[i]._id = id}
    IN  IF hits = {} THEN coll
        ELSE SubSeq(coll, 1, Min(hits) - 1) \o SubSeq(coll, Min(hits) + 1, Len(coll))

\* a mutant of move_to_completed: delete_one from staging, then insert_one
move_to_completed_delete_first(staging, done, vm_doc, post_result, fault, id) ==
    LET inserted == Append(done, SetFields(completed_doc_of(vm_doc, post_result),
                                           [_id |-> ObjectId(id)]))
    IN  CASE fault = "delete_fails" -> [staging |-> staging, completed |-> done, next_id |-> id]
          [] fault = "insert_fails" ->
                 [ staging |-> delete_one(staging, vm_doc._id), completed |-> done,
                   next_id |-> id ]
          [] OTHER ->
                 [ staging |-> delete_one(staging, vm_doc._id),
                   completed |-> inserted, next_id |-> id + 1 ]

\* move_to_completed: insert_one into completed, then delete_one from staging;
\* an exception from either call ends it there
move_to_completed(staging, done, vm_doc, post_result, fault, id) ==
    LET inserted == Append(done, SetFields(completed_doc_of(vm_doc, post_result),
                                           [_id |-> ObjectId(id)]))
    IN  CASE fault = "insert_fails" -> [staging |-> staging, completed |-> done, next_id |-> id]
          [] fault = "delete_fails" ->
                 [staging |-> staging, completed |-> inserted, next_id |-> id + 1]
          [] OTHER ->
                 [ staging |-> delete_one(staging, vm_doc._id),
                   completed |-> inserted, next_id |-> id + 1 ]

\* mark_as_failed: update_one({'_id': ...}, {'$set': update_doc})
update_doc_no_increment(vm_doc, post_result) ==
    [ status |-> "failed",
      failure_reason |-> Get(post_result, "error", Txt("Unknown error")),
      failure_status_code |-> Get(post_result, "status_code", None),
      retry_count |-> Get(vm_doc, "retry_count", PyInt(0)) ]

update_doc_of(vm_doc, post_result) ==
    [ status |-> "failed",
      failure_reason |-> Get(post_result, "error", Txt("Unknown error")),
      failure_status_code |-> Get(post_result, "status_code", None),
      retry_count |-> PyInt(Get(vm_doc, "retry_count", PyInt(0)).n + 1) ]

mark_as_failed(staging, vm_doc, post_result, fault) ==
    IF fault = "update_fails" THEN staging
    ELSE [i \in 1..Len(staging) |->
            IF staging[i]._id = vm_doc._id /\ \A j \in 1..(i - 1) : staging[j]._id # vm_doc._id
            THEN SetFields(staging[i], update_doc_of(vm_doc, post_result))
            ELSE staging[i]]

Idle == [pc |-> "idle"]

\* the record of a posting run's last turn, before any run
NoPost ==
    [ vm_doc |-> <<>>, answer |-> [kind |-> "none"], fault |-> "none", op |-> "none",
      selected |-> {}, posted |-> <<>>, finished |-> TRUE, max_retries |-> 0,
      request |-> None ]

\* process_vms(limit): the candidate query, then the loop (or the early return)
start_posting(staging, limit, op, selected, max_retries) ==
    LET pending_vms == get_pending_vms(staging, limit)
    IN  IF pending_vms = <<>> THEN Idle
        ELSE [pc |-> "posting", op |-> op, queue |-> pending_vms, selected |-> selected,
              posted |-> <<>>, max_retries |-> max_retries, limit |-> limit]

ProcessVms(limit) ==
    /\ poster.pc = "idle"
    /\ ops < MaxOps
    /\ poster' = start_posting(missing, limit, "process_vms", {}, 0)
    /\ last_op' = IF poster'.pc = "idle" THEN "process_vms" ELSE "get_pending_vms"
    /\ ops' = ops + 1
    /\ UNCHANGED apiVars
    /\ UNCHANGED <<vcenter, jira, missing, completed, current_object_type_id,
                   current_object_schema_id, jira_service_token, refdata, next_id, clock,
                   diff_result, last_post>>

\* one turn of the loop of process_vms: the POST and its disposition
PostVm(answer, fault) ==
    /\ poster.pc = "posting"
    /\ LET vm_doc == Head(poster.queue)
           post_result == post_vm_to_jira(vm_doc, answer)
           moved == move_to_completed(missing, completed, vm_doc, post_result, fault, next_id)
           rest == Tail(poster.queue)
       IN  /\ IF post_result.success
              THEN /\ fault \in {"none", "insert_fails", "delete_fails"}
                   /\ missing' = moved.staging
                   /\ completed' = moved.completed
                   /\ next_id' = moved.next_id
              ELSE /\ fault \in {"none", "update_fails"}
                   /\ missing' = mark_as_failed(missing, vm_doc, post_result, fault)
                   /\ UNCHANGED <<completed, next_id>>
           /\ poster' = IF rest = <<>> THEN Idle
                        ELSE [poster EXCEPT !.queue = rest, !.posted = Append(@, vm_doc._id)]
           /\ last_op' = IF rest = <<>> THEN poster.op ELSE "post_vm_to_jira"
           /\ last_post' = [ vm_doc |-> vm_doc,
                             answer |-> IF post_request(vm_doc) = None
                                        THEN [kind |-> "none"] ELSE answer,
                             fault |-> fault,
                             op |-> poster.op, selected |-> poster.selected,
                             posted |-> Append(poster.posted, vm_doc._id),
                             finished |-> rest = <<>>, max_retries |-> poster.max_retries,
                             request |-> post_request(vm_doc) ]
    /\ UNCHANGED apiVars
    /\ UNCHANGED <<vcenter, jira, current_object_type_id, current_object_schema_id,
                   jira_service_token, refdata, clock, diff_result, ops>>

\* retry_failed_vms, up to the reset of the selected documents
retry_query_any_failed(doc, max_retries) == doc.status = "failed"

retry_query(doc, max_retries) ==
    /\ doc.status = "failed"
    /\ "retry_count" \in DOMAIN doc
    /\ doc.retry_count.n < max_retries

RetryFailedVms(max_retries) ==
    /\ poster.pc = "idle"
    /\ ops < MaxOps
    /\ LET vm_ids == {missing[i]._id : i \in {i \in 1..Len(missing) :
                                                retry_query(missing[i], max_retries)}}
       IN  IF vm_ids = {}
           THEN /\ UNCHANGED <<missing, poster>>
                /\ last_post' = [NoPost EXCEPT !.op = "retry_failed_vms",
                                                !.max_retries = max_retries]
                /\ last_op' = "retry_failed_vms"
           ELSE /\ missing' = [i \in 1..Len(missing) |->
                                  IF missing[i]._id \in vm_ids
                                  THEN SetFields(missing[i], [status |-> "pending_creation"])
                                  ELSE missing[i]]
                /\ poster' = [pc |-> "retry_reset", selected |-> vm_ids,
                              max_retries |-> max_retries]
                /\ last_op' = "retry_reset"
                /\ UNCHANGED last_post
    /\ ops' = ops + 1
    /\ UNCHANGED apiVars
    /\ UNCHANGED <<vcenter, jira, completed, current_object_type_id,
                   current_object_schema_id, jira_service_token, refdata, next_id, clock,
                   diff_result>>

\* retry_failed_vms, the call process_vms(limit=len(failed_vms))
RetryProcessVms ==
    /\ poster.pc = "retry_reset"
    /\ poster' = start_posting(missing, Cardinality(poster.selected), "retry_failed_vms",
                               poster.selected, poster.max_retries)
    /\ last_op' = IF poster'.pc = "idle" THEN "retry_failed_vms" ELSE "get_pending_vms"
    /\ UNCHANGED apiVars
    /\ UNCHANGED <<vcenter, jira, missing, completed, current_object_type_id,
                   current_object_schema_id, jira_service_token, refdata, next_id, clock,
                   diff_result, ops, last_post>>

(***************************************************************************)
(* Specifications                                                          *)
(***************************************************************************)
NoDiff == [status |-> "none"]

\* no endpoint has answered yet
NoResponse ==
    [endpoint |-> "none", status_code |-> 0, status |-> "none", error |-> "none",
     enqueued |-> 0, catalog_calls |-> 0, request |-> [kind |-> "none"]]

\* bulk_upsert_vms has not been called yet
NoUpsert == [batch |-> <<>>, upserted |-> 0, modified |-> 0, errors |-> 0, outcomes |-> <<>>]

\* no helper function has been called yet
NoCall == [fn |-> "none"]

\* no JiraService has been constructed
NoJiraService == [session |-> None]

\* no collection run has been started yet
NoCollection ==
    [ pc |-> "idle", inventory |-> <<>>, max_processes |-> 0, si |-> "none",
      batches |-> <<>>, before |-> <<>>, order |-> <<>>,
      result |-> [status |-> "none", total_vms |-> 0, processed_vms |-> 0, errors |-> 0] ]

InitCommon ==
    /\ jira = <<>>
    /\ missing = <<>>
    /\ completed = <<>>
    /\ current_object_type_id = Str(DEFAULT_OBJECT_TYPE_ID)
    /\ current_object_schema_id = Str(DEFAULT_OBJECT_SCHEMA_ID)
    /\ jira_service_token = Str(YOUR_TOKEN_HERE)
    /\ next_id = 1
    /\ clock = 1
    /\ poster = Idle
    /\ diff_result = NoDiff
    /\ last_post = NoPost
    /\ last_op = "init"
    /\ ops = 0
    /\ response = NoResponse
    /\ background = <<>>
    /\ store_reachable = TRUE
    /\ upsert_result = NoUpsert
    /\ call = NoCall
    /\ collection = NoCollection
    /\ jira_service = NoJiraService

\* the pipeline: two hypervisor VMs, reconciliation, posting and retry
PipelineVMs ==
    << VmDoc(1, <<"v", "1">>, [ip_address |-> Str(IP_X), guest_ip_addresses |-> <<>>,
                          networks |-> <<>>], NoTags),
       VmDoc(2, <<"v", "2">>, [ip_address |-> None, guest_ip_addresses |-> <<Str(IP_Y)>>,
                          networks |-> <<>>], NoTags) >>

Init ==
    /\ InitCommon
    /\ vcenter = PipelineVMs
    /\ refdata = NoRefdata

Reconcile == ProcessVmDiff(None, None, None, FALSE)
CollectJira == \E rec \in JiraPool : CollectJiraVm(rec)
PostToJira == \E limit \in 0..1 : ProcessVms(limit)
Post == \E answer \in Answers : PostVm(answer, "none")
Retry == \E max_retries \in 1..3 : RetryFailedVms(max_retries)

Next ==
    \/ Reconcile
    \/ PostToJira
    \/ Post
    \/ Retry
    \/ RetryProcessVms

Spec == Init /\ [][Next]_vars

\* reconciliation over every content of the hypervisor collection
InitDiff ==
    /\ InitCommon
    /\ vcenter \in VcenterContents(MaxVMs)
    /\ refdata = NoRefdata

NextDiff ==
    \/ Reconcile
    \/ CollectJira
    \/ DeleteAllVms

SpecDiff == InitDiff /\ [][NextDiff]_vars

\* the pipeline with the document store failing a write
PostFaulty ==
    \E answer \in {a \in Answers : a.kind = "http" /\ a.status_code \in {201, 401}} :
        \E fault \in {"none", "insert_fails", "delete_fails", "update_fails"} :
            PostVm(answer, fault)

NextFaults ==
    \/ Reconcile
    \/ PostToJira
    \/ PostFaulty
    \/ Retry
    \/ RetryProcessVms

SpecFaults == Init /\ [][NextFaults]_vars

\* payload construction over tag mappings, reference data and per-call overrides
BILLING == <<"B", "i", "l", "l", "i", "n", "g">>
RHEL == <<"R", "H", "E", "L">>
API_TOKEN == <<"t", "o", "k">>

TagPool ==
    { NoTags,
      [guest_os |-> Str(<<"r", "h", "e", "l", "8">>), tags_jira_asset |-> <<>>],
      [guest_os |-> Str(<<>>),
       tags_jira_asset |-> <<[System |-> Str(BILLING), Component |-> Str(<<>>)]>>] }

Entry(label, key) == [label |-> Str(label), objectKey |-> Str(key)]

Entries(entries) == [ty \in {"3006", "3233", "3236"} |-> [ok |-> TRUE, objectEntries |-> entries]]

RefdataPool ==
    { NoRefdata,
      Entries(<<Entry(UNKNOWN, <<"I", "T", "-", "0">>)>>),
      Entries(<<Entry(BILLING, <<"I", "T", "-", "1">>), Entry(RHEL, <<"I", "T", "-", "2">>)>>),
      Entries(<<Entry(BILLING, <<"I", "T", "-", "1">>), Entry(RHEL, <<"I", "T", "-", "2">>),
                Entry(UNKNOWN, <<"I", "T", "-", "0">>)>>) }

InitPayload ==
    /\ InitCommon
    /\ \E tags \in TagPool :
           vcenter = << VmDoc(1, <<"v", "1">>,
                              [ip_address |-> Str(IP_X), guest_ip_addresses |-> <<>>,
                               networks |-> <<>>], tags) >>
    /\ refdata \in RefdataPool

ReconcileWith ==
    \E token \in {None, Str(API_TOKEN)} :
        \E object_type_id \in {None, Str(<<"9">>)} :
            \E object_schema_id \in {None, Str(<<"8">>)} :
                \E other_given \in BOOLEAN :
                    ProcessVmDiff(token, object_type_id, object_schema_id, other_given)

NextPayload == ReconcileWith

SpecPayload == InitPayload /\ [][NextPayload]_vars

(***************************************************************************)
(* Properties of the reconciliation run                                    *)
(***************************************************************************)
\* every address a hypervisor VM document carries
AddressesOf(vm) ==
    {Get(vm, "ip_address", None)}
        \cup {guest_ips_of(vm)[i] : i \in 1..Len(guest_ips_of(vm))}
        \cup {network_ips_of(vm)[i] : i \in 1..Len(network_ips_of(vm))}

ValidIpsOf(vm) == {strip(ip.s) : ip \in {a \in AddressesOf(vm) : is_valid_ip(a)}}

\* the catalog IP set: the valid ip_address, secondary_ip and secondary_ip2
CatalogIpSet ==
    { strip(ip.s) :
        ip \in { a \in UNION { { Get(jira[i], "ip_address", None),
                                 Get(jira[i], "secondary_ip", None),
                                 Get(jira[i], "secondary_ip2", None) } : i \in 1..Len(jira) } :
                 is_valid_ip(a) } }

AfterDiff == last_op = "process_vm_diff"

NameOf(vm) == strip(vm.name.s)

\* the staging documents the run that just finished has written
StagedByRun ==
    { j \in 1..Len(missing) :
        \E k \in 1..Len(diff_result.staged) : diff_result.staged[k] = missing[j].vm_name }

\* the hypervisor VMs a staging document was built from
SourceVMs(doc) == {i \in 1..Len(vcenter) : vcenter[i].uuid = doc.debug_info.vcenter_uuid}

SummaryIp(doc) == strip(doc.vm_summary.ip.s)

\* C1: after a reconciliation run, every hypervisor VM with at least one valid
\* IP (primary, guest or network) none of which is in the catalog IP set has a
\* staging record under its name with status pending_creation.
C1_MissingVmStaged ==
    AfterDiff =>
        \A i \in 1..Len(vcenter) :
            (ValidIpsOf(vcenter[i]) # {} /\ ValidIpsOf(vcenter[i]) \cap CatalogIpSet = {})
                => \E j \in 1..Len(missing) :
                       /\ missing[j].vm_name = NameOf(vcenter[i])
                       /\ missing[j].status = "pending_creation"

\* a VM whose only valid address is a network descriptor's, unknown to the
\* catalog, and no staging record under its name after the run
C1_NetworkOnlyVmNotStaged ==
    /\ AfterDiff
    /\ \E i \in 1..Len(vcenter) :
           /\ ValidIpsOf(vcenter[i]) # {}
           /\ ValidIpsOf(vcenter[i]) \cap CatalogIpSet = {}
           /\ ~has_valid_ip(vcenter[i])
           /\ \A j \in 1..Len(missing) : missing[j].vm_name # NameOf(vcenter[i])

\* C2: a reconciliation run never stages a hypervisor VM one of whose valid IPs
\* (primary, guest or network) is in the catalog IP set.
C2_NoCatalogedVmStaged ==
    AfterDiff =>
        \A j \in StagedByRun :
            \A i \in SourceVMs(missing[j]) : ValidIpsOf(vcenter[i]) \cap CatalogIpSet = {}

\* a run that stages one VM and leaves out another whose primary address is
\* unknown to the catalog but whose guest or network address is known
C2_FoundBySecondaryAddress ==
    /\ AfterDiff
    /\ StagedByRun # {}
    /\ \E i \in 1..Len(vcenter) :
           /\ ~match_primary(vcenter[i], CatalogIpSet)
           /\ ValidIpsOf(vcenter[i]) \cap CatalogIpSet # {}
           /\ \A j \in StagedByRun : i \notin SourceVMs(missing[j])

\* C3: a VM with zero valid IPs is never staged and not counted as found, only
\* in the skipped tally; every record a run stages belongs to a VM with at
\* least one valid IP.
C3_ZeroIpVmSkipped ==
    AfterDiff =>
        /\ \A j \in StagedByRun :
               \A i \in SourceVMs(missing[j]) : ValidIpsOf(vcenter[i]) # {}
        /\ diff_result.found_by_ip =
               Cardinality({i \in 1..Len(vcenter) : ValidIpsOf(vcenter[i]) \cap CatalogIpSet # {}})
        /\ diff_result.no_ip_vms >=
               Cardinality({i \in 1..Len(vcenter) : ValidIpsOf(vcenter[i]) = {}})

\* a run over a VM without any valid IP and a VM it stages
C3_ZeroIpVmBesideStagedVm ==
    /\ AfterDiff
    /\ StagedByRun # {}
    /\ diff_result.no_ip_vms = 1
    /\ \E i \in 1..Len(vcenter) : ValidIpsOf(vcenter[i]) = {}

\* C4: every staging record that exists when a reconciliation run starts and
\* whose vm_summary.ip is in the run's catalog IP set is gone from staging when
\* the run ends, whatever the hypervisor collection holds.
C4_ResolvedStagingDeleted ==
    [][ last_op' = "process_vm_diff" =>
          \A j \in 1..Len(missing) :
              SummaryIp(missing[j]) \in CatalogIpSet
                  => \A k \in 1..Len(missing') : missing'[k]._id # missing[j]._id ]_vars

\* a run over an empty hypervisor collection that leaves a resolved record
C4_ResolvedRecordSurvives ==
    /\ AfterDiff
    /\ vcenter = <<>>
    /\ \E j \in 1..Len(missing) : SummaryIp(missing[j]) \in CatalogIpSet

(***************************************************************************)
(* Properties of the posting run                                           *)
(***************************************************************************)
\* the step taken is a turn of the posting loop, on the queue's first document
Posting == poster.pc = "posting"

Answered201(post) == post.answer.kind = "http" /\ post.answer.status_code = 201

\* the staging documents carrying an id
WithId(staging, id) == {j \in 1..Len(staging) : staging[j]._id = id}

\* C5: on HTTP 201 the staging record is copied into completed with status
\* completed, processing_completed true, the returned object key and the
\* staging id as a string in original_id, and the staging record is deleted.
C5_SuccessDisposition ==
    [][ (Posting /\ Answered201(last_post')) =>
          LET vm_doc == Head(poster.queue)
              done == completed'[Len(completed')]
          IN  /\ Len(completed') = Len(completed) + 1
              /\ done.vm_name = vm_doc.vm_name
              /\ done.jira_asset_payload = vm_doc.jira_asset_payload
              /\ done.status = "completed"
              /\ done.processing_completed = TRUE
              /\ done.jira_object_key = last_post'.answer.body.objectKey
              /\ WithId(missing', vm_doc._id) = {}
              /\ IsStr(done.original_id)
              /\ done.original_id.s = IntToChars(vm_doc._id.oid) ]_vars

\* a 201 after which the completed record's original_id is an ObjectId
C5_OriginalIdIsObjectId ==
    /\ Answered201(last_post)
    /\ WithId(missing, last_post.vm_doc._id) = {}
    /\ \E k \in 1..Len(completed) :
           /\ completed[k].status = "completed"
           /\ completed[k].original_id = last_post.vm_doc._id
           /\ ~IsStr(completed[k].original_id)

RetrySelects == ops' = ops + 1 /\ last_op' \in {"retry_reset", "retry_failed_vms"}

\* C7: retry_failed_vms(max_retries) selects a staging record if and only if
\* its status is failed and its retry_count is below max_retries; the selected
\* records become pending_creation, the others keep their status.
C7_RetryEligibility ==
    [][ RetrySelects =>
          LET reset == poster'.pc = "retry_reset"
              selected == IF reset THEN poster'.selected ELSE {}
              max_retries == IF reset THEN poster'.max_retries ELSE last_post'.max_retries
          IN  /\ Len(missing') = Len(missing)
              /\ \A j \in 1..Len(missing) :
                     /\ missing[j]._id \in selected
                            <=> /\ missing[j].status = "failed"
                                /\ Get(missing[j], "retry_count", PyInt(max_retries)).n
                                       < max_retries
                     /\ missing[j]._id \in selected
                            => missing'[j] = SetFields(missing[j], [status |-> "pending_creation"])
                     /\ missing[j]._id \notin selected => missing'[j] = missing[j] ]_vars

\* a retry with max_retries = 2 that selects a record failed once and leaves a
\* record failed twice
C7_OneSelectedOneExhausted ==
    /\ poster.pc = "retry_reset"
    /\ poster.max_retries = 2
    /\ \E j \in 1..Len(missing) :
           /\ missing[j]._id \in poster.selected
           /\ missing[j].status = "pending_creation"
           /\ missing[j].retry_count = PyInt(1)
    /\ \E j \in 1..Len(missing) :
           /\ missing[j]._id \notin poster.selected
           /\ missing[j].status = "failed"
           /\ missing[j].retry_count = PyInt(2)

\* C8: a retry pass posts exactly the records it selected: every record it
\* reset is posted in the pass and no record outside that set is.
C8_RetryPostsSelected ==
    last_post.op = "retry_failed_vms" =>
        /\ \A k \in 1..Len(last_post.posted) : last_post.posted[k] \in last_post.selected
        /\ last_post.finished =>
               \A id \in last_post.selected :
                   \E k \in 1..Len(last_post.posted) : last_post.posted[k] = id

\* a finished retry pass that posted a record it had not selected and did not
\* post the record it had selected
C8_PostedOutsideSelection ==
    /\ last_post.op = "retry_failed_vms"
    /\ last_post.finished
    /\ \E k \in 1..Len(last_post.posted) : last_post.posted[k] \notin last_post.selected
    /\ \E id \in last_post.selected :
           \A k \in 1..Len(last_post.posted) : last_post.posted[k] # id

(***************************************************************************)
(* Properties of the creation payload                                      *)
(***************************************************************************)
ATTRIBUTE_IDS ==
    <<14590, 14591, 14594, 14595, 14596, 14599, 14611, 14780,
      14603, 14604, 14605, 14606, 14612, 14820, 14817, 15636>>

Attributes(doc) == doc.jira_asset_payload.attributes

\* the value a staged payload carries for an attribute id
AttrValue(doc, id) ==
    LET attrs == Attributes(doc)
        k == CHOOSE k \in 1..Len(attrs) : attrs[k].objectTypeAttributeId = id
    IN  attrs[k].objectAttributeValues[1].value

\* the chain: the key of the source label, else the key of "Unknown", else "Unknown"
FallbackChain(source, object_type_id) ==
    LET own == IF Truthy(source)
               THEN get_itam_number_by_label(jira_service_token, source, object_type_id)
               ELSE None
        unknown == get_itam_number_by_label(jira_service_token, Str(UNKNOWN), object_type_id)
    IN  IF Truthy(own) THEN own ELSE IF Truthy(unknown) THEN unknown ELSE Str(UNKNOWN)

ChainHolds(doc, id, source, object_type_id) ==
    /\ IsStr(AttrValue(doc, id))
    /\ AttrValue(doc, id).s # <<>>
    /\ AttrValue(doc, id) = FallbackChain(source, object_type_id)

\* C9: for System, Component and OperatingSystem the value embedded in the
\* payload is the key resolved for the source label, else the key resolved for
\* "Unknown", else the literal "Unknown"; it is never blank or absent.
C9_ItamFallbackChain ==
    AfterDiff =>
        \A j \in StagedByRun :
            LET doc == missing[j]
            IN  /\ ChainHolds(doc, 14817, doc.debug_info.source_system_value, "3006")
                /\ ChainHolds(doc, 14780, doc.debug_info.source_component_value, "3233")
                /\ ChainHolds(doc, 14820, doc.debug_info.source_os_value, "3236")

\* a staged payload whose System value is None although the VM carries a
\* System label: neither the label nor "Unknown" resolved
C9_SystemValueIsNone ==
    /\ AfterDiff
    /\ \E j \in StagedByRun :
           /\ Truthy(missing[j].debug_info.source_system_value)
           /\ IsNone(AttrValue(missing[j], 14817))
           /\ IsNone(get_itam_number_by_label(jira_service_token, Str(UNKNOWN), "3006"))

\* C10: the payload carries exactly the sixteen attribute ids in order, each
\* with a single string value, and the objectTypeId and objectSchemaId
\* configured for the run.
C10_PayloadShape ==
    AfterDiff =>
        \A j \in StagedByRun :
            LET attrs == Attributes(missing[j])
            IN  /\ [k \in 1..Len(attrs) |-> attrs[k].objectTypeAttributeId] = ATTRIBUTE_IDS
                /\ \A k \in 1..Len(attrs) :
                       /\ Len(attrs[k].objectAttributeValues) = 1
                       /\ IsStr(attrs[k].objectAttributeValues[1].value)
                /\ missing[j].jira_asset_payload.objectTypeId = current_object_type_id
                /\ missing[j].jira_asset_payload.objectSchemaId = current_object_schema_id

\* a staged payload with the sixteen ids and the run's overridden object type,
\* one of whose values is not a string
C10_NonStringValue ==
    /\ AfterDiff
    /\ \E j \in StagedByRun :
           LET attrs == Attributes(missing[j])
           IN  /\ [k \in 1..Len(attrs) |-> attrs[k].objectTypeAttributeId] = ATTRIBUTE_IDS
               /\ missing[j].jira_asset_payload.objectTypeId = Str(<<"9">>)
               /\ \E k \in 1..Len(attrs) : ~IsStr(attrs[k].objectAttributeValues[1].value)

(***************************************************************************)
(* VCenterService.extract_vm_data and DatabaseService.bulk_upsert_vms      *)
(***************************************************************************)
\* vm.config of a VM whose configuration the hypervisor does not hand out
NoConfig == [present |-> FALSE]

\* vm.config: uuid, the extraConfig value under the key "vmid" (<<>> when the
\* key is absent) and config.hardware (absent when memoryMB = 0)
Config(uuid, vmid, memoryMB) ==
    [present |-> TRUE, uuid |-> uuid, vmid |-> vmid, memoryMB |-> memoryMB]

\* the record extracted from one VM object: vmid falls back to the mobid,
\* the hardware fields are added only when config.hardware is there
extract_vm_data(vm) ==
    LET config == vm.config
        found == IF config.present THEN config.vmid ELSE <<>>
        vmid == IF found # <<>> THEN found ELSE vm.moId
        vm_data == [ name |-> Str(vm.name),
                     mobid |-> Str(vm.moId),
                     uuid |-> IF config.present THEN Str(config.uuid) ELSE None,
                     vmid |-> Str(vmid) ]
    IN  IF config.present /\ config.memoryMB # 0
        THEN [ cpu_count |-> PyInt(2),
               memory_mb |-> PyInt(config.memoryMB),
               memory_gb |-> PyInt(config.memoryMB \div 1024) ] @@ vm_data
        ELSE vm_data

\* {'uuid': vm_data['uuid']} if vm_data.get('uuid') else {'mobid': vm_data['mobid']}
filter_query(vm_data) ==
    IF Truthy(Get(vm_data, "uuid", None))
    THEN [field |-> "uuid", value |-> vm_data.uuid]
    ELSE [field |-> "mobid", value |-> vm_data.mobid]

matching(coll, query) ==
    {i \in 1..Len(coll) : query.field \in DOMAIN coll[i] /\ coll[i][query.field] = query.value}

\* the collection's unique indexes: uuid (unique, sparse: a stored null is
\* indexed, a missing field is not) and vmid (unique)
duplicate_key(coll, i, doc) ==
    \E j \in (1..Len(coll)) \ {i} :
        \/ /\ "uuid" \in DOMAIN doc
           /\ "uuid" \in DOMAIN coll[j]
           /\ coll[j].uuid = doc.uuid
        \/ Get(coll[j], "vmid", None) = Get(doc, "vmid", None)

\* {'$set': vm_data}: the fields of vm_data are written, the others stay
vm_set(stored, vm_data) == SetFields(stored, vm_data)

\* UpdateOne(filter_query, {'$set': vm_data}, upsert=True) against the indexes
update_one_upsert(coll, vm_data, id) ==
    LET hits == matching(coll, filter_query(vm_data))
        i == IF hits = {} THEN 0 ELSE Min(hits)
        doc == IF hits = {} THEN vm_set([_id |-> ObjectId(id)], vm_data)
               ELSE vm_set(coll[i], vm_data)
    IN  IF duplicate_key(coll, i, doc) THEN [coll |-> coll, outcome |-> "error"]
        ELSE IF hits = {} THEN [coll |-> Append(coll, doc), outcome |-> "upserted"]
        ELSE [coll |-> [coll EXCEPT ![i] = doc],
              outcome |-> IF doc = coll[i] THEN "matched" ELSE "modified"]

\* bulk_write(operations, ordered=False): a failed write does not stop the rest
RECURSIVE bulk_upsert_vms(_, _, _)
bulk_upsert_vms(coll, vm_data_list, id) ==
    IF vm_data_list = <<>>
    THEN [coll |-> coll, next_id |-> id, upserted |-> 0, modified |-> 0, errors |-> 0,
          outcomes |-> <<>>]
    ELSE LET one == update_one_upsert(coll, Head(vm_data_list), id)
             rest == bulk_upsert_vms(one.coll, Tail(vm_data_list),
                                     IF one.outcome = "upserted" THEN id + 1 ELSE id)
         IN  [rest EXCEPT !.upserted = @ + (IF one.outcome = "upserted" THEN 1 ELSE 0),
                          !.modified = @ + (IF one.outcome = "modified" THEN 1 ELSE 0),
                          !.errors = @ + (IF one.outcome = "error" THEN 1 ELSE 0),
                          !.outcomes = <<one.outcome>> \o @]

\* ProcessingService.collect_vms stores one batch of extracted records
BulkUpsertVms(vm_data_list) ==
    /\ ops < MaxOps
    /\ LET result == bulk_upsert_vms(vcenter, vm_data_list, next_id)
       IN  /\ vcenter' = result.coll
           /\ next_id' = result.next_id
           /\ upsert_result' = [ batch |-> vm_data_list,
                                 upserted |-> result.upserted,
                                 modified |-> result.modified,
                                 errors |-> result.errors,
                                 outcomes |-> result.outcomes ]
    /\ last_op' = "bulk_upsert_vms"
    /\ ops' = ops + 1
    /\ UNCHANGED <<response, background, store_reachable, call, collection, jira_service>>
    /\ UNCHANGED <<jira, missing, completed, current_object_type_id,
                   current_object_schema_id, jira_service_token, refdata, clock,
                   poster, diff_result, last_post>>

\* the i-th VM of the inventory as successive collection passes may see it:
\* without configuration, with it, with a changed memory size, with a vmid
\* key in extraConfig, without the hardware structure
VmObjects(i) ==
    LET n == IntToChars(i)
        vm(config) == [name |-> <<"v">> \o n, moId |-> <<"m">> \o n, config |-> config]
        uuid == <<"u">> \o n
    IN  { vm(NoConfig), vm(Config(uuid, <<>>, 4096)) }
        \cup (IF i = 1
              THEN { vm(Config(uuid, <<>>, 8192)), vm(Config(uuid, <<"7">>, 4096)),
                     vm(Config(uuid, <<>>, 0)) }
              ELSE {})

\* one collection pass: every VM of the inventory at most once, in order
RECURSIVE Batches(_)
Batches(n) ==
    IF n = 0 THEN {<<>>}
    ELSE LET shorter == Batches(n - 1)
         IN  shorter \cup {Append(b, extract_vm_data(vm)) : b \in shorter, vm \in VmObjects(n)}

InitStore ==
    /\ InitCommon
    /\ vcenter = <<>>
    /\ refdata = NoRefdata

CollectVms == \E vm_data_list \in Batches(MaxVMs) : BulkUpsertVms(vm_data_list)

NextStore ==
    \/ CollectVms
    \/ DeleteAllVms

SpecStore == InitStore /\ [][NextStore]_vars

(***************************************************************************)
(* Claims on the hypervisor-VM collection                                  *)
(***************************************************************************)
OnePerUuid(coll) ==
    \A i, j \in 1..Len(coll) :
        (i # j /\ Truthy(Get(coll[i], "uuid", None))) =>
            Get(coll[i], "uuid", None) # Get(coll[j], "uuid", None)

OnePerMobid(coll) ==
    \A i, j \in 1..Len(coll) : i # j => coll[i].mobid # coll[j].mobid

Carries(doc, vm_data) == \A f \in DOMAIN vm_data : f \in DOMAIN doc /\ doc[f] = vm_data[f]

\* a VM stored under its uuid and upserted again has one document, with the new values
ReupsertKept(before, after, batch) ==
    \A k \in 1..Len(batch) :
        LET vm_data == batch[k]
            hits == matching(after, [field |-> "uuid", value |-> vm_data.uuid])
        IN  (Truthy(vm_data.uuid)
                /\ matching(before, [field |-> "uuid", value |-> vm_data.uuid]) # {}) =>
            /\ Cardinality(hits) = 1
            /\ \A j \in hits : Carries(after[j], vm_data)

\* C11: after every bulk upsert the hypervisor-VM collection holds at most one
\* document per non-null uuid and at most one document per mobid, and a VM
\* upserted again under the same uuid has exactly one document, which carries
\* the new values.
C11_HypervisorVmIdentity ==
    [][ last_op' = "bulk_upsert_vms" =>
            /\ OnePerUuid(vcenter')
            /\ OnePerMobid(vcenter')
            /\ ReupsertKept(vcenter, vcenter', upsert_result'.batch) ]_vars

\* a VM stored without a uuid and stored again with one: two documents share its mobid
C11_TwoDocumentsForOneMobid ==
    /\ last_op = "bulk_upsert_vms"
    /\ \E i, j \in 1..Len(vcenter) :
           /\ i # j
           /\ vcenter[i].mobid = vcenter[j].mobid
           /\ IsNone(vcenter[i].uuid)
           /\ Truthy(vcenter[j].uuid)

\* the stored document an upsert of vm_data wrote to
Written(coll, vm_data) == matching(coll, filter_query(vm_data))

\* C12: after an upsert the stored document of that VM holds only the fields
\* of the newly extracted record (and the store's _id): a field of the
\* previous record that the new extraction lacks is no longer stored.
C12_UpsertReplacesRecord ==
    last_op = "bulk_upsert_vms" =>
        \A k \in 1..Len(upsert_result.batch) :
            upsert_result.outcomes[k] # "error" =>
                \A j \in Written(vcenter, upsert_result.batch[k]) :
                    DOMAIN vcenter[j] = DOMAIN upsert_result.batch[k] \cup {"_id"}

\* a VM stored with its hardware fields and upserted again from an extraction
\* without the hardware structure: memory_gb is still stored
C12_HardwareFieldsSurvive ==
    /\ last_op = "bulk_upsert_vms"
    /\ \E k \in 1..Len(upsert_result.batch) :
           /\ upsert_result.outcomes[k] = "modified"
           /\ Truthy(upsert_result.batch[k].uuid)
           /\ "memory_gb" \notin DOMAIN upsert_result.batch[k]
           /\ \E j \in Written(vcenter, upsert_result.batch[k]) :
                  "memory_gb" \in DOMAIN vcenter[j]

(***************************************************************************)
(* The "-async" endpoints and the runs they hand to the thread pool        *)
(***************************************************************************)
\* JiraConfig of a request body; object_type_id and object_schema_id default
\* to "3191" and "242" when the body omits them
JiraConfig(token, object_type_id, object_schema_id) ==
    [ t |-> "JiraConfig",
      api_url |-> Str(<<"a">>),
      token |-> Str(token),
      object_type_id |-> Str(object_type_id),
      object_schema_id |-> Str(object_schema_id),
      cookie |-> None ]

DiffProcessRequests ==
    { [kind |-> "DiffProcessRequest", jira_config |-> None],
      [kind |-> "DiffProcessRequest",
       jira_config |-> JiraConfig(API_TOKEN, <<"9">>, DEFAULT_OBJECT_SCHEMA_ID)] }

\* the arguments both reconciliation endpoints pass to DiffService.process_vm_diff
process_vm_diff_args(request) ==
    LET jira_config == request.jira_config
    IN  IF Truthy(jira_config)
        THEN [ api_url |-> jira_config.api_url,
               token |-> jira_config.token,
               object_type_id |-> jira_config.object_type_id,
               object_schema_id |-> jira_config.object_schema_id,
               cookie |-> Or(jira_config.cookie, Str(<<>>)) ]
        ELSE [ api_url |-> None, token |-> None, object_type_id |-> None,
               object_schema_id |-> None, cookie |-> None ]

\* background_tasks.add_task(func, *args)
Task(op, args) ==
    [ op |-> op, args |-> args, pc |-> "queued", writes |-> <<>>, pass |-> "none",
      queue |-> <<>>, posted |-> <<>>, failed |-> <<>> ]

\* the envelope of an "-async" endpoint that reached its return statement
Accepted(endpoint, request) ==
    [ endpoint |-> endpoint, status_code |-> 200, status |-> "accepted", error |-> "none",
      enqueued |-> 1, catalog_calls |-> 0, request |-> request ]

\* an exception caught by the endpoint's "except Exception" and answered as HTTP 500
ServerError(endpoint, request, error) ==
    [ endpoint |-> endpoint, status_code |-> 500, status |-> "error", error |-> error,
      enqueued |-> 0, catalog_calls |-> 0, request |-> request ]

\* add_task(func, *args) and the call func(*args): the positional arguments
\* bound to the function's parameters in order
Bind(params, values) ==
    [p \in {params[i] : i \in 1..Len(params)} |->
        values[CHOOSE i \in 1..Len(params) : params[i] = p]]

\* the parameters of DiffService.process_vm_diff, in order
process_vm_diff_params == <<"api_url", "token", "object_type_id", "object_schema_id", "cookie">>

\* the jira_config dict of the "-async" endpoints, as the argument tuple
jira_config_values(request) ==
    LET jira_config == request.jira_config
    IN  IF Truthy(jira_config)
        THEN << jira_config.api_url, jira_config.token, jira_config.object_type_id,
                jira_config.object_schema_id, Or(jira_config.cookie, Str(<<>>)) >>
        ELSE << None, None, None, None, None >>

\* what an "-async" endpoint leaves alone
Enqueued(endpoint) ==
    /\ last_op' = endpoint
    /\ UNCHANGED <<vcenter, jira, missing, completed, current_object_type_id,
                   current_object_schema_id, jira_service_token, refdata, next_id, clock,
                   poster, diff_result, last_post, ops, store_reachable, upsert_result, call, collection, jira_service>>

\* POST process-vm-diff-async
ProcessVmDiffAsync(request) ==
    /\ Len(background) < MaxRuns
    /\ background' = Append(background,
                            Task("process_vm_diff",
                                 Bind(process_vm_diff_params, jira_config_values(request))))
    /\ response' = Accepted("process-vm-diff-async", request)
    /\ Enqueued("process_vm_diff_async")

\* VCenterConfig: host, username, password, port
VCenterConfig ==
    [ t |-> "VCenterConfig", host |-> Str(<<"h">>), username |-> Str(<<"u">>),
      password |-> Str(<<"p">>), port |-> PyInt(443) ]

CollectionRequests ==
    { [ kind |-> "CollectionRequest", vcenter_config |-> c, batch_size |-> PyInt(50),
        max_processes |-> PyInt(8) ] : c \in {None, VCenterConfig} }

\* the keyword arguments of the collect-vms endpoint's call of
\* ProcessingService.collect_vms
collect_vms_args(request) ==
    LET vcenter_config == request.vcenter_config
        given == Truthy(vcenter_config)
    IN  [ vcenter_host |-> IF given THEN vcenter_config.host ELSE None,
          vcenter_username |-> IF given THEN vcenter_config.username ELSE None,
          vcenter_password |-> IF given THEN vcenter_config.password ELSE None,
          vcenter_port |-> IF given THEN vcenter_config.port ELSE None,
          default_site |-> Get(vcenter_config, "default_site", None),
          default_zone |-> Get(vcenter_config, "default_zone", None),
          batch_size |-> request.batch_size,
          max_processes |-> request.max_processes ]

\* POST collect-vms-async: default_site is read from a VCenterConfig, which
\* has no such field, and is unbound when the request carries no
\* vcenter_config; either exception is answered as HTTP 500 before add_task
CollectVmsAsync(request) ==
    /\ response' = ServerError("collect-vms-async", request,
                               IF Truthy(request.vcenter_config)
                               THEN "AttributeError" ELSE "UnboundLocalError")
    /\ background' = background
    /\ Enqueued("collect_vms_async")

\* POST collect-vms: the same two reads precede the call of
\* ProcessingService.collect_vms, so the pipeline is never started and the
\* hypervisor-VM collection is left as it was
CollectVmsApi(request) ==
    /\ response' = ServerError("collect-vms", request,
                               IF Truthy(request.vcenter_config)
                               THEN "AttributeError" ELSE "UnboundLocalError")
    /\ background' = background
    /\ Enqueued("collect_vms")

JiraCollectionRequests ==
    { [ kind |-> "JiraCollectionRequest", jira_config |-> c, batch_size |-> PyInt(50),
        max_processes |-> PyInt(8) ]
      : c \in {None, JiraConfig(API_TOKEN, DEFAULT_OBJECT_TYPE_ID, DEFAULT_OBJECT_SCHEMA_ID)} }

\* the parameters of JiraProcessingService.collect_jira_vms, in order
collect_jira_vms_params ==
    << "api_url", "token", "object_type_id", "object_schema_id", "cookie", "batch_size",
       "max_processes" >>

\* the keyword arguments of the collect-jira-vms endpoint's call
collect_jira_vms_args(request) ==
    process_vm_diff_args(request)
        @@ [batch_size |-> request.batch_size, max_processes |-> request.max_processes]

\* POST collect-jira-vms-async
CollectJiraVmsAsync(request) ==
    /\ Len(background) < MaxRuns
    /\ background' =
           Append(background,
                  Task("collect_jira_vms",
                       Bind(collect_jira_vms_params,
                            jira_config_values(request)
                                \o <<request.batch_size, request.max_processes>>)))
    /\ response' = Accepted("collect-jira-vms-async", request)
    /\ Enqueued("collect_jira_vms_async")

\* JiraPosterConfig of a request body
JiraPosterConfig ==
    [ t |-> "JiraPosterConfig", jira_token |-> Str(API_TOKEN), create_url |-> Str(<<"c">>),
      object_type_id |-> Str(DEFAULT_OBJECT_TYPE_ID),
      object_schema_id |-> Str(DEFAULT_OBJECT_SCHEMA_ID), delay_seconds |-> PyInt(1) ]

JiraPosterRequests ==
    { [ kind |-> "JiraPosterRequest", jira_config |-> None, limit |-> None,
        retry_failed |-> FALSE, max_retries |-> PyInt(3) ],
      [ kind |-> "JiraPosterRequest", jira_config |-> JiraPosterConfig, limit |-> PyInt(1),
        retry_failed |-> TRUE, max_retries |-> PyInt(2) ] }

\* post-to-jira: the poster's construction, the optional retry pass and the
\* posting pass the synchronous endpoint runs
post_vms_to_jira_args(request) ==
    LET jira_config == request.jira_config
        given == Truthy(jira_config)
    IN  [ jira_token |-> IF given THEN jira_config.jira_token ELSE None,
          create_url |-> IF given THEN jira_config.create_url ELSE None,
          retry_failed |-> request.retry_failed,
          max_retries |-> Or(request.max_retries, PyInt(3)),
          limit |-> request.limit,
          delay |-> IF given THEN Or(jira_config.delay_seconds, PyInt(1)) ELSE PyInt(1) ]

\* the closure run_jira_posting of post-to-jira-async
run_jira_posting(request) ==
    LET jira_config == request.jira_config
        given == Truthy(jira_config)
    IN  [ jira_token |-> IF given THEN jira_config.jira_token ELSE None,
          create_url |-> IF given THEN jira_config.create_url ELSE None,
          retry_failed |-> request.retry_failed,
          max_retries |-> Or(request.max_retries, PyInt(3)),
          limit |-> request.limit,
          delay |-> IF given THEN Or(jira_config.delay_seconds, PyInt(1)) ELSE PyInt(1) ]

\* POST post-to-jira-async
PostVmsToJiraAsync(request) ==
    /\ Len(background) < MaxRuns
    /\ background' = Append(background, Task("post_vms_to_jira", run_jira_posting(request)))
    /\ response' = Accepted("post-to-jira-async", request)
    /\ Enqueued("post_vms_to_jira_async")

\* the fields of the document save_missing_vms_to_mongodb writes with $set
DocumentKeys ==
    {"vm_name", "jira_asset_payload", "debug_info", "vm_summary", "status", "created_date",
     "schema_config"}

\* the upserts of one bulk_write once the server has evaluated their filters:
\* the $set document, and the record found or the _id of the insert to come
matched_upserts(staging, saved, missing_vms) ==
    LET names == {missing_vms[i].key : i \in 1..Len(missing_vms)}
        written == SelectSeq(saved, LAMBDA doc : doc.vm_name \in names)
    IN  [ i \in 1..Len(written) |->
            [ document |-> [f \in DocumentKeys |-> written[i][f]],
              _id |-> written[i]._id,
              matched |-> \E j \in 1..Len(staging) : staging[j]._id = written[i]._id ] ]

\* the write half of the upserts: an update of the record found, else an insert
RECURSIVE apply_upserts(_, _)
apply_upserts(staging, writes) ==
    IF writes = <<>> THEN staging
    ELSE LET w == Head(writes)
             hits == {j \in 1..Len(staging) : staging[j]._id = w._id}
         IN  apply_upserts(
                 IF w.matched /\ hits # {}
                 THEN [staging EXCEPT ![Min(hits)] = SetFields(@, w.document)]
                 ELSE Append(staging, SetFields([_id |-> w._id], w.document)),
                 Tail(writes))

\* a background process_vm_diff on its pool thread, up to the point where the
\* store has evaluated the filters of its upserts; the staging collection has
\* no unique index on vm_name, so the store does not serialise the upserts of
\* two runs
BackgroundDiffQuery(k) ==
    /\ background[k].op = "process_vm_diff"
    /\ background[k].pc = "queued"
    /\ LET args == background[k].args
           type_id == schema_after(current_object_type_id, args.object_type_id)
           schema_id == schema_after(current_object_schema_id, args.object_schema_id)
           tok == token_after(jira_service_token, args.token, args.object_type_id,
                              args.object_schema_id,
                              Truthy(args.api_url) \/ Truthy(args.cookie))
           found == find_missing_vms_ip_only(vcenter, jira, missing)
           saved == save_missing_vms_to_mongodb(found.missing_vms, found.staging, tok,
                                                type_id, schema_id, next_id, clock)
       IN  /\ current_object_type_id' = type_id
           /\ current_object_schema_id' = schema_id
           /\ jira_service_token' = tok
           /\ missing' = found.staging
           /\ next_id' = saved.next_id
           /\ clock' = saved.clock
           /\ background' =
                [background EXCEPT ![k].pc = "writing",
                                   ![k].writes = matched_upserts(found.staging, saved.staging,
                                                                 found.missing_vms)]
    /\ last_op' = "background_diff_query"
    /\ UNCHANGED <<response, store_reachable, upsert_result, call, collection, jira_service>>
    /\ UNCHANGED <<vcenter, jira, completed, refdata, poster, diff_result, last_post, ops>>

\* the rest of that run: the store applies the upserts
BackgroundDiffWrite(k) ==
    /\ background[k].op = "process_vm_diff"
    /\ background[k].pc = "writing"
    /\ missing' = apply_upserts(missing, background[k].writes)
    /\ background' = [background EXCEPT ![k].pc = "done", ![k].writes = <<>>]
    /\ last_op' = "background_diff_write"
    /\ UNCHANGED <<response, store_reachable, upsert_result, call, collection, jira_service>>
    /\ UNCHANGED <<vcenter, jira, completed, current_object_type_id,
                   current_object_schema_id, jira_service_token, refdata, next_id, clock,
                   poster, diff_result, last_post, ops>>

DiffAsync == \E request \in DiffProcessRequests : ProcessVmDiffAsync(request)
DiffQuery == \E k \in 1..Len(background) : BackgroundDiffQuery(k)
DiffWrite == \E k \in 1..Len(background) : BackgroundDiffWrite(k)

PostAsync == \E request \in JiraPosterRequests : PostVmsToJiraAsync(request)

\* requests arriving while the pool threads run the queued diff runs
NextAsync ==
    \/ DiffAsync
    \/ DiffQuery
    \/ DiffWrite
    \/ PostAsync

SpecAsync == Init /\ [][NextAsync]_vars

\* C13: in every reachable state the staging collection holds at most one
\* record per vm_name, whatever the order or interleaving of the operations.
C13_OneStagingRecordPerVmName ==
    \A i, j \in 1..Len(missing) : i # j => missing[i].vm_name # missing[j].vm_name

\* two background reconciliations have both inserted the same missing VM
C13_StagedTwiceByTwoRuns ==
    /\ last_op = "background_diff_write"
    /\ Len(background) = 2
    /\ background[1].pc = "done"
    /\ background[2].pc = "done"
    /\ \E i, j \in 1..Len(missing) :
           /\ i # j
           /\ missing[i].vm_name = missing[j].vm_name
           /\ missing[i]._id # missing[j]._id

(***************************************************************************)
(* The read and posting endpoints of the API router                        *)
(***************************************************************************)
\* what an endpoint leaves alone when it only answers
Answered(endpoint) ==
    /\ last_op' = endpoint
    /\ UNCHANGED <<vcenter, jira, missing, completed, current_object_type_id,
                   current_object_schema_id, jira_service_token, refdata, next_id, clock,
                   poster, diff_result, last_post, ops, store_reachable, upsert_result, call, collection, jira_service>>

\* find_one({'uuid': uuid}) without its _id; None when nothing matches or the
\* store raises
get_vm_by_uuid(coll, uuid, reachable) ==
    LET hits == matching(coll, [field |-> "uuid", value |-> uuid])
    IN  IF ~reachable \/ hits = {}
        THEN [found |-> FALSE]
        ELSE [found |-> TRUE,
              vm |-> [f \in DOMAIN coll[Min(hits)] \ {"_id"} |-> coll[Min(hits)][f]]]

\* VirtualMachine(**vm): the model declares no vmid field and drops it
VirtualMachine(vm) == [f \in DOMAIN vm \ {"vmid"} |-> vm[f]]

Identifiers == {Str(<<"u", "1">>), Str(<<"m", "2">>), Str(<<"z">>)}

\* GET vm/{identifier}: get_vm_by_uuid, and on a miss a call of
\* database_service.get_vm_by_vmid, which DatabaseService does not define
GetVmByIdentifier(identifier) ==
    /\ LET request == [kind |-> "identifier", identifier |-> identifier]
           by_uuid == get_vm_by_uuid(vcenter, identifier, store_reachable)
       IN  response' =
               IF by_uuid.found
               THEN [ endpoint |-> "vm", status_code |-> 200, status |-> "success",
                      error |-> "none", enqueued |-> 0, catalog_calls |-> 0,
                      request |-> request, data |-> VirtualMachine(by_uuid.vm) ]
               ELSE ServerError("vm", request, "AttributeError")
    /\ Answered("get_vm_by_identifier")
    /\ UNCHANGED background

CUSTOM_PAYLOAD_VM ==
    <<"c", "u", "s", "t", "o", "m", "-", "p", "a", "y", "l", "o", "a", "d", "-", "v", "m">>

\* request bodies of post-custom-payload-to-jira: no "payload" key, an empty
\* payload, a payload
PayloadRequests ==
    { [jira_config |-> <<>>],
      [jira_config |-> <<>>, payload |-> <<>>],
      [jira_config |-> <<>>,
       payload |-> [objectTypeId |-> Str(DEFAULT_OBJECT_TYPE_ID), attributes |-> <<>>]] }

\* POST post-custom-payload-to-jira: the HTTPException(400) is raised inside
\* the try block, whose only handler is "except Exception"
PostCustomPayloadToJira(payload_request, answer) ==
    /\ LET custom_payload == Get(payload_request, "payload", <<>>)
           fake_vm_doc == [ vm_name |-> Get(custom_payload, "vm_name", Str(CUSTOM_PAYLOAD_VM)),
                            jira_asset_payload |-> custom_payload ]
           result == post_vm_to_jira(fake_vm_doc, answer)
       IN  response' =
               IF custom_payload = <<>>
               THEN ServerError("post-custom-payload-to-jira", payload_request, "HTTPException")
               ELSE [ endpoint |-> "post-custom-payload-to-jira", status_code |-> 200,
                      status |-> IF result.success THEN "success" ELSE "failed",
                      error |-> "none", enqueued |-> 0, catalog_calls |-> 1,
                      request |-> payload_request, data |-> result ]
    /\ Answered("post_custom_payload_to_jira")
    /\ UNCHANGED background

\* get_vm_count, get_jira_vm_count, get_missing_vm_count: count_documents({}),
\* and 0 when the store raises
count_documents(coll, reachable) == IF reachable THEN Len(coll) ELSE 0

\* GET /health of the application root
RootHealthCheck ==
    /\ response' = [ endpoint |-> "/health", status_code |-> 200, status |-> "healthy",
                     error |-> "none", enqueued |-> 0, catalog_calls |-> 0,
                     request |-> [kind |-> "none"], data |-> [status |-> "healthy"] ]
    /\ Answered("root_health_check")
    /\ UNCHANGED background

\* GET health under the API prefix: the three counts never raise, so the
\* handler's except branch (HTTP 503) is not taken
HealthCheck ==
    /\ response' = [ endpoint |-> "health", status_code |-> 200, status |-> "healthy",
                     error |-> "none", enqueued |-> 0, catalog_calls |-> 0,
                     request |-> [kind |-> "none"],
                     data |-> [ status |-> "healthy",
                                database |-> "connected",
                                vcenter_vm_count |-> count_documents(vcenter, store_reachable),
                                jira_vm_count |-> count_documents(jira, store_reachable),
                                missing_vm_count |-> count_documents(missing, store_reachable) ] ]
    /\ Answered("health_check")
    /\ UNCHANGED background

\* request bodies of post-selected-vms-to-jira: the ids are the staging
\* records' _id as strings
SelectedVMsPosterRequests ==
    { [ kind |-> "SelectedVMsPosterRequest", jira_config |-> c, vm_ids |-> ids,
        delay_seconds |-> PyInt(1) ]
      : c \in {None, JiraPosterConfig},
        ids \in { <<>>, <<Str(<<"1">>)>>, <<Str(<<"2">>), Str(<<"1">>)>>, <<Str(<<"9">>)>> } }

\* POST post-selected-vms-to-jira: 400 for an empty list; otherwise the poster
\* is constructed with object_type_id and object_schema_id, keyword arguments
\* its __init__(jira_token, create_url) does not take, and the TypeError is
\* answered as HTTP 500 before any record is looked up
PostSelectedVmsToJira(request) ==
    /\ response' =
           IF request.vm_ids = <<>>
           THEN [ServerError("post-selected-vms-to-jira", request, "HTTPException")
                    EXCEPT !.status_code = 400]
           ELSE ServerError("post-selected-vms-to-jira", request, "TypeError")
    /\ Answered("post_selected_vms_to_jira")
    /\ UNCHANGED background

\* the staging collection after one reconciliation of the pipeline's VMs
StagedPipeline ==
    save_missing_vms_to_mongodb(
        find_missing_vms_ip_only(PipelineVMs, <<>>, <<>>).missing_vms, <<>>,
        Str(YOUR_TOKEN_HERE), Str(DEFAULT_OBJECT_TYPE_ID), Str(DEFAULT_OBJECT_SCHEMA_ID), 1, 1)

InitApi ==
    /\ vcenter = PipelineVMs
    /\ refdata = NoRefdata
    /\ jira = <<>>
    /\ missing = StagedPipeline.staging
    /\ completed = <<>>
    /\ current_object_type_id = Str(DEFAULT_OBJECT_TYPE_ID)
    /\ current_object_schema_id = Str(DEFAULT_OBJECT_SCHEMA_ID)
    /\ jira_service_token = Str(YOUR_TOKEN_HERE)
    /\ next_id = StagedPipeline.next_id
    /\ clock = StagedPipeline.clock
    /\ poster = Idle
    /\ diff_result = NoDiff
    /\ last_post = NoPost
    /\ last_op = "init"
    /\ ops = 0
    /\ response = NoResponse
    /\ background = <<>>
    /\ store_reachable \in BOOLEAN
    /\ upsert_result = NoUpsert
    /\ call = NoCall
    /\ collection = NoCollection
    /\ jira_service = NoJiraService

GetVm == \E identifier \in Identifiers : GetVmByIdentifier(identifier)

PostCustomPayload ==
    \E payload_request \in PayloadRequests, answer \in Answers :
        PostCustomPayloadToJira(payload_request, answer)

CollectAsync == \E request \in CollectionRequests : CollectVmsAsync(request)
CollectSync == \E request \in CollectionRequests : CollectVmsApi(request)
CollectJiraAsync == \E request \in JiraCollectionRequests : CollectJiraVmsAsync(request)

PostSelected == \E request \in SelectedVMsPosterRequests : PostSelectedVmsToJira(request)

NextApi ==
    \/ GetVm
    \/ PostCustomPayload
    \/ RootHealthCheck
    \/ HealthCheck
    \/ CollectAsync
    \/ CollectSync
    \/ CollectJiraAsync
    \/ DiffAsync
    \/ PostAsync
    \/ PostSelected

SpecApi == InitApi /\ [][NextApi]_vars

(***************************************************************************)
(* Claims on the API's answers                                             *)
(***************************************************************************)
StoredWith(field, value) == matching(vcenter, [field |-> field, value |-> value])

\* C14: GET vm/{identifier} returns the stored VM whose uuid is the
\* identifier, else the one whose mobid is the identifier, and answers 404
\* when no stored VM matches either way.
C14_VmLookup ==
    (response.endpoint = "vm" /\ store_reachable) =>
        LET identifier == response.request.identifier
            by_uuid == StoredWith("uuid", identifier)
            by_mobid == StoredWith("mobid", identifier)
        IN  IF by_uuid # {}
            THEN /\ response.status_code = 200
                 /\ \E i \in by_uuid : response.data = VirtualMachine(vcenter[i])
            ELSE IF by_mobid # {}
            THEN /\ response.status_code = 200
                 /\ \E i \in by_mobid : response.data = VirtualMachine(vcenter[i])
            ELSE response.status_code = 404

\* a lookup that matches no uuid and no mobid is answered 500
C14_MissAnswered500 ==
    /\ response.endpoint = "vm"
    /\ store_reachable
    /\ StoredWith("uuid", response.request.identifier) = {}
    /\ StoredWith("mobid", response.request.identifier) = {}
    /\ response.status_code = 500
    /\ response.error = "AttributeError"

\* C15: POST post-custom-payload-to-jira with an empty or missing payload is
\* answered with HTTP 400 and makes no call to the catalog.
C15_EmptyPayloadAnswered400 ==
    (response.endpoint = "post-custom-payload-to-jira"
        /\ Get(response.request, "payload", <<>>) = <<>>) =>
        /\ response.status_code = 400
        /\ response.catalog_calls = 0

\* a body without a "payload" key is answered 500, with no call to the catalog
C15_MissingPayloadAnswered500 ==
    /\ response.endpoint = "post-custom-payload-to-jira"
    /\ "payload" \notin DOMAIN response.request
    /\ response.status_code = 500
    /\ response.error = "HTTPException"
    /\ response.catalog_calls = 0

\* C16: the root /health probe and the versioned health endpoint answer HTTP
\* 503 with an unhealthy, disconnected body when the document store is
\* unreachable, and answer healthy only when it is reachable.
C16_HealthReflectsStore ==
    response.endpoint \in {"/health", "health"} =>
        IF store_reachable
        THEN /\ response.status_code = 200
             /\ response.data.status = "healthy"
        ELSE /\ response.status_code = 503
             /\ response.data.status = "unhealthy"
             /\ Get(response.data, "database", "none") = "disconnected"

\* the versioned endpoint reports a connected database and zero counts while
\* the store is unreachable
C16_HealthyWhileUnreachable ==
    /\ response.endpoint = "health"
    /\ ~store_reachable
    /\ response.status_code = 200
    /\ response.data.status = "healthy"
    /\ response.data.database = "connected"
    /\ response.data.vcenter_vm_count = 0

\* the run the synchronous sibling of an "-async" endpoint makes for a request
SiblingRun(endpoint, request) ==
    CASE endpoint = "collect-vms-async" -> Task("collect_vms", collect_vms_args(request))
      [] endpoint = "collect-jira-vms-async" ->
            Task("collect_jira_vms", collect_jira_vms_args(request))
      [] endpoint = "process-vm-diff-async" ->
            Task("process_vm_diff", process_vm_diff_args(request))
      [] endpoint = "post-to-jira-async" ->
            Task("post_vms_to_jira", post_vms_to_jira_args(request))

AsyncHandlers ==
    {"collect_vms_async", "collect_jira_vms_async", "process_vm_diff_async",
     "post_vms_to_jira_async"}

\* C17: each "-async" endpoint, for any valid request, with or without a
\* config override, answers with an "accepted" envelope while its run is still
\* queued, and enqueues exactly one background run: the operation of its
\* synchronous sibling with the same parameters.
C17_AsyncEnqueuesSiblingRun ==
    [][ last_op' \in AsyncHandlers =>
            /\ response'.status_code = 200
            /\ response'.status = "accepted"
            /\ background' =
                   Append(background, SiblingRun(response'.endpoint, response'.request)) ]_vars

\* collect-vms-async without a vcenter_config answers 500 and enqueues nothing
C17_CollectVmsAsyncAnswered500 ==
    /\ last_op = "collect_vms_async"
    /\ IsNone(response.request.vcenter_config)
    /\ response.status_code = 500
    /\ response.error = "UnboundLocalError"
    /\ response.enqueued = 0
    /\ background = <<>>

\* the staging records a list of ids names
Listed(staging, vm_ids) ==
    {i \in 1..Len(staging) :
        \E k \in 1..Len(vm_ids) : vm_ids[k] = Str(IntToChars(staging[i]._id.oid))}

\* the disposition of the normal posting pass: moved to completed, or kept as failed
Disposed(doc, staging, done) ==
    \/ /\ \A j \in 1..Len(staging) : staging[j]._id # doc._id
       /\ \E j \in 1..Len(done) : done[j].vm_name = doc.vm_name /\ done[j].status = "completed"
    \/ \E j \in 1..Len(staging) : staging[j]._id = doc._id /\ staging[j].status = "failed"

\* C18: post-selected-vms-to-jira with a non-empty vm_ids list posts exactly
\* the staging records whose ids are listed, whatever their status, and
\* disposes of each as the normal posting pass does; the staging records that
\* are not listed are neither posted nor modified.
C18_PostsListedRecords ==
    [][ (last_op' = "post_selected_vms_to_jira" /\ response'.request.vm_ids # <<>>) =>
            LET listed == Listed(missing, response'.request.vm_ids)
            IN  /\ response'.catalog_calls = Cardinality(listed)
                /\ \A i \in listed : Disposed(missing[i], missing', completed')
                /\ \A i \in (1..Len(missing)) \ listed :
                       \E j \in 1..Len(missing') : missing'[j] = missing[i] ]_vars

\* a request listing both staged records is answered 500; nothing is posted
\* and both records are still pending
C18_ListedRecordsNotPosted ==
    /\ last_op = "post_selected_vms_to_jira"
    /\ Cardinality(Listed(missing, response.request.vm_ids)) = 2
    /\ response.status_code = 500
    /\ response.error = "TypeError"
    /\ response.catalog_calls = 0
    /\ \A i \in 1..Len(missing) : missing[i].status = "pending_creation"
    /\ completed = <<>>

(***************************************************************************)
(* Claims on the posting order                                             *)
(***************************************************************************)
PendingIn(staging) == {i \in 1..Len(staging) : staging[i].status = "pending_creation"}

\* queue holds, oldest first, the pending records of staging: all of them when
\* limit is 0 (no limit), else the limit oldest
OldestPending(staging, limit, queue) ==
    LET pending == PendingIn(staging)
        queued == {i \in pending : \E k \in 1..Len(queue) : queue[k] = staging[i]}
    IN  /\ \A k \in 1..Len(queue) : \E i \in pending : queue[k] = staging[i]
        /\ \A k \in 1..(Len(queue) - 1) : queue[k].created_date < queue[k + 1].created_date
        /\ Len(queue) = IF limit = 0 \/ Cardinality(pending) < limit
                        THEN Cardinality(pending) ELSE limit
        /\ \A i \in pending \ queued :
               \A k \in 1..Len(queue) : queue[k].created_date < staging[i].created_date

\* C19: a posting run takes only records whose status is pending_creation,
\* oldest created_date first, the N oldest when it has a limit N, and posts
\* them one at a time in that order and no others.
C19_PostingOrder ==
    [][ /\ (poster.pc # "posting" /\ poster'.pc = "posting") =>
               OldestPending(missing, poster'.limit, poster'.queue)
        /\ Posting =>
               LET vm_doc == Head(poster.queue)
               IN  /\ last_post'.vm_doc = vm_doc
                   /\ last_post'.posted = Append(poster.posted, vm_doc._id)
                   /\ WithId(missing, vm_doc._id) # {}
                   /\ \A j \in WithId(missing, vm_doc._id) :
                          missing[j].status = "pending_creation"
                   /\ poster.posted # <<>> =>
                          last_post.vm_doc.created_date < vm_doc.created_date
                   /\ IF Tail(poster.queue) = <<>>
                      THEN poster'.pc = "idle"
                      ELSE poster'.queue = Tail(poster.queue) ]_vars

\* a run with limit 1 over two pending records has posted the older one only
C19_LimitedRunPostedOldest ==
    /\ last_post.op = "process_vms"
    /\ last_post.finished
    /\ Len(last_post.posted) = 1
    /\ poster.pc = "idle"
    /\ last_op = "process_vms"
    /\ \E i \in PendingIn(missing) :
           /\ missing[i]._id # last_post.vm_doc._id
           /\ last_post.vm_doc.created_date < missing[i].created_date

(***************************************************************************)
(* Claims on the runtime schema configuration                              *)
(***************************************************************************)
\* the override a call gives, else the configured default
PerCall(given, default) == IF Truthy(given) THEN given ELSE Str(default)

\* C20: the objectTypeId and objectSchemaId written into the payloads of a
\* reconciliation call are the override given to that call, and the configured
\* settings defaults when that call gives no override.
C20_SchemaIdsPerCall ==
    AfterDiff =>
        \A j \in StagedByRun :
            /\ missing[j].jira_asset_payload.objectTypeId =
                   PerCall(diff_result.given_object_type_id, DEFAULT_OBJECT_TYPE_ID)
            /\ missing[j].jira_asset_payload.objectSchemaId =
                   PerCall(diff_result.given_object_schema_id, DEFAULT_OBJECT_SCHEMA_ID)

\* a call without an override has written the object type an earlier call gave
C20_EarlierOverrideWritten ==
    /\ AfterDiff
    /\ IsNone(diff_result.given_object_type_id)
    /\ IsNone(diff_result.given_object_schema_id)
    /\ \E j \in StagedByRun :
           missing[j].jira_asset_payload.objectTypeId = Str(<<"9">>)

(***************************************************************************)
(* Claims on the synchronous collection endpoint                           *)
(***************************************************************************)
\* C21: POST collect-vms runs the hypervisor collection pipeline and answers
\* with its counts (status "success", HTTP 200), both when the request
\* carries a hypervisor config override and when it carries none.
C21_CollectVmsAnswersCounts ==
    last_op = "collect_vms" =>
        /\ response.status_code = 200
        /\ response.status = "success"

\* collect-vms with a full host/username/password/port override answers 500
C21_CollectVmsOverrideAnswered500 ==
    /\ last_op = "collect_vms"
    /\ response.request.vcenter_config = VCenterConfig
    /\ response.status_code = 500
    /\ response.error = "AttributeError"

(***************************************************************************)
(* Claims on the disposition of posted records under store faults          *)
(***************************************************************************)
\* the step taken is a turn of the posting loop
PostTurn == Posting /\ poster' # poster

\* the completed documents made from the staging document with an id
MadeFrom(done, id) == {k \in 1..Len(done) : done[k].original_id = id}

\* C22: move_to_completed inserts into completed before it deletes from
\* staging, so after every turn that posted a record successfully, whichever
\* of the two store calls failed or was never reached, the record is in
\* staging or in completed, never in neither.
C22_PostedRecordNeverLost ==
    [][ (PostTurn /\ Answered201(last_post')) =>
          LET vm_doc == Head(poster.queue)
          IN  \/ WithId(missing', vm_doc._id) # {}
              \/ MadeFrom(completed', vm_doc._id) # {} ]_vars

\* the state between the two calls: the insert is done, the delete is not
C22_InsertedNotYetDeleted ==
    /\ Answered201(last_post)
    /\ last_post.fault = "delete_fails"
    /\ WithId(missing, last_post.vm_doc._id) # {}
    /\ MadeFrom(completed, last_post.vm_doc._id) # {}

(***************************************************************************)
(* DiffService.is_valid_ip over candidate strings                          *)
(***************************************************************************)
Dot(a, b, c, d) == a \o <<".">> \o b \o <<".">> \o c \o <<".">> \o d

FirstOctets ==
    { <<"0">>, <<"1">>, <<"1", "0">>, <<"1", "2", "7">>, <<"1", "6", "9">>,
      <<"2", "5", "4">>, <<"2", "5", "5">>, <<"2", "5", "6">> }

DottedQuads ==
    { Dot(a, b, c, d) : a \in FirstOctets,
                        b \in {<<"0">>, <<"2">>, <<"2", "5", "4">>, <<"2", "5", "5">>},
                        c \in {<<"0">>, <<"1">>, <<"3">>, <<"2", "5", "5">>},
                        d \in {<<"0">>, <<"1">>, <<"4">>, <<"5">>, <<"2", "5", "5">>} }

IPV6_DOC == <<"2", "0", "0", "1", ":", "d", "b", "8", ":", ":", "1">>
NOT_AN_IP == <<"n", "o", "t", "-", "a", "n", "-", "i", "p">>

OtherStrings ==
    { <<>>, <<" ">>, NOT_AN_IP, IPV6_DOC, <<":", ":", "1">>, <<":", ":">>,
      <<"f", "e", "8", "0", ":", ":", "1">>,
      <<"1", ":", "2", ":", "3", ":", "4", ":", "5", ":", "6", ":", "7", ":", "8">>,
      <<"1", ":", "2", ":", "3">>, <<":", ":", ":">>, <<"g", ":", ":", "1">>,
      <<"1", "2", "3", "4", "5", ":", ":", "1">>,
      <<"1", ".", "2", ".", "3">>, <<"1", ".", "2", ".", "3", ".", "4", ".", "5">>,
      <<"1", ".", "2", ".", "3", ".", "0", "4">>, <<"1", "2", "7", ".">>,
      <<"1", "6", "9", ".", "2", "5", "4", ".">> }

\* strings as the hypervisor and the catalog hand them out, some padded
Padded(s) == {s, <<" ">> \o s, s \o <<" ">>, <<" ">> \o s \o <<" ">>, <<"\t">> \o s \o <<"\n">>}

IpCandidates ==
    {Str(s) : s \in DottedQuads \cup OtherStrings}
        \cup {Str(p) : p \in UNION {Padded(s) : s \in {IP_X, IP_Y, IP_LOOPBACK, IPV6_DOC,
                                                        NOT_AN_IP}}}
        \cup {None, PyInt(5)}

\* one call self.is_valid_ip(ip)
IsValidIp(ip) ==
    /\ call' = [fn |-> "is_valid_ip", arg |-> ip, value |-> is_valid_ip(ip)]
    /\ last_op' = "is_valid_ip"
    /\ UNCHANGED <<response, background, store_reachable, upsert_result, collection, jira_service>>
    /\ UNCHANGED <<vcenter, jira, missing, completed, current_object_type_id,
                   current_object_schema_id, jira_service_token, refdata, next_id, clock,
                   poster, diff_result, last_post, ops>>

NextIp == \E ip \in IpCandidates : IsValidIp(ip)

SpecIp == InitStore /\ [][NextIp]_vars

(***************************************************************************)
(* Claims on the IP validity filter                                        *)
(***************************************************************************)
\* the ranges the filter excludes, on a string that parses as an address
InExcludedRange(s) ==
    \/ startswith(s, <<"1", "2", "7", ".">>)
    \/ s = Dot(<<"0">>, <<"0">>, <<"0">>, <<"0">>)
    \/ s = Dot(<<"2", "5", "5">>, <<"2", "5", "5">>, <<"2", "5", "5">>, <<"2", "5", "5">>)
    \/ startswith(s, <<"1", "6", "9", ".", "2", "5", "4", ".">>)

\* the string between its first and its last character that is not whitespace
Trimmed(s) ==
    LET inked == {i \in 1..Len(s) : s[i] \notin Whitespace}
    IN  IF inked = {} THEN <<>>
        ELSE SubSeq(s, Min(inked), CHOOSE j \in inked : \A k \in inked : k <= j)

\* the examples of valid and invalid candidates
ValidExamples ==
    { Dot(<<"1">>, <<"2">>, <<"3">>, <<"4">>), Dot(<<"1", "0">>, <<"0">>, <<"0">>, <<"5">>),
      IPV6_DOC }

InvalidExamples ==
    { Dot(<<"1", "2", "7">>, <<"0">>, <<"0">>, <<"1">>),
      Dot(<<"0">>, <<"0">>, <<"0">>, <<"0">>),
      Dot(<<"2", "5", "5">>, <<"2", "5", "5">>, <<"2", "5", "5">>, <<"2", "5", "5">>),
      Dot(<<"1", "6", "9">>, <<"2", "5", "4">>, <<"1">>, <<"1">>),
      <<>>, NOT_AN_IP }

IpChecked == call.fn = "is_valid_ip" /\ IsStr(call.arg)

\* C23: is_valid_ip accepts a string exactly when it parses as an IP address
\* (v4 or v6) and does not start with "127.", is not "0.0.0.0" or
\* "255.255.255.255", and does not start with "169.254."; the listed
\* examples are valid and invalid as stated.
C23_IpValidityFilter ==
    IpChecked =>
        /\ call.value <=> (ip_address_parses(call.arg.s) /\ ~InExcludedRange(call.arg.s))
        /\ call.arg.s \in ValidExamples => call.value
        /\ call.arg.s \in InvalidExamples => ~call.value

\* C23, amended: the same of the string with the whitespace around it removed.
C23_IpValidityFilterTrimmed ==
    IpChecked =>
        /\ call.value <=> ( /\ ip_address_parses(Trimmed(call.arg.s))
                            /\ ~InExcludedRange(Trimmed(call.arg.s)) )
        /\ call.arg.s \in ValidExamples => call.value
        /\ call.arg.s \in InvalidExamples => ~call.value

\* a padded address, which does not parse as it stands, has been accepted
C23_PaddedAddressAccepted ==
    /\ IpChecked
    /\ call.arg.s = IP_Y_PADDED
    /\ ~ip_address_parses(call.arg.s)
    /\ call.value

(***************************************************************************)
(* The pipeline with every retry pass at one threshold                     *)
(***************************************************************************)
RetryAtThreshold == RetryFailedVms(RetryThreshold)

NextRetry ==
    \/ Reconcile
    \/ PostToJira
    \/ Post
    \/ RetryAtThreshold
    \/ RetryProcessVms

SpecRetry == Init /\ [][NextRetry]_vars

\* C24: under any sequence of reconciliation, posting and retry operations
\* with retry threshold N, a staging record whose retry_count has reached N
\* is not posted to the catalog again.
C24_ExhaustedRecordNotPosted ==
    [][ PostTurn => Get(Head(poster.queue), "retry_count", PyInt(0)).n < RetryThreshold ]_vars

\* a record that had failed N times was staged again by a reconciliation and
\* taken by a plain posting run
C24_ExhaustedRecordPostedAgain ==
    /\ last_post.op = "process_vms"
    /\ last_post.vm_doc # <<>>
    /\ Get(last_post.vm_doc, "retry_count", PyInt(0)).n = RetryThreshold
    /\ last_post.vm_doc.status = "pending_creation"
    /\ diff_result # NoDiff

\* the records of a collection under a VM name
Named(coll, vm_name) == {k \in 1..Len(coll) : coll[k].vm_name = vm_name}

\* C25: under any sequence of reconciliation and posting runs, a VM that a
\* successful post has created in the catalog (it has a record in the
\* completed collection) is not staged and posted a second time, even when
\* the stored catalog snapshot has not been collected again since the post.
C25_CompletedVmNotStagedAgain ==
    \A k \in 1..Len(completed) :
        /\ Named(missing, completed[k].vm_name) = {}
        /\ Named(completed, completed[k].vm_name) = {k}

\* a VM posted twice: two completed records under its name, made from two
\* staging records, with the catalog snapshot still empty
C25_VmPostedTwice ==
    /\ jira = <<>>
    /\ \E k, l \in 1..Len(completed) :
           /\ k # l
           /\ completed[k].vm_name = completed[l].vm_name
           /\ completed[k].original_id # completed[l].original_id

(***************************************************************************)
(* Posting runs on the thread pool (the closure run_jira_posting)          *)
(***************************************************************************)
\* what a step of a background posting run leaves alone
PostRunStep(step) ==
    /\ last_op' = step
    /\ UNCHANGED <<vcenter, jira, current_object_type_id, current_object_schema_id,
                   jira_service_token, refdata, clock, poster, diff_result, last_post, ops,
                   response, store_reachable, upsert_result, call, collection, jira_service>>

\* the run starts: with retry_failed its first pass is retry_failed_vms
BackgroundPostStart(k) ==
    /\ background[k].op = "post_vms_to_jira"
    /\ background[k].pc = "queued"
    /\ background' =
           [background EXCEPT ![k].pc = "query",
                              ![k].pass = IF background[k].args.retry_failed
                                          THEN "retry_failed_vms" ELSE "process_vms"]
    /\ UNCHANGED <<missing, completed, next_id>>
    /\ PostRunStep("run_jira_posting")

\* the query of a pass: retry_failed_vms finds the failed records below
\* max_retries, resets them and calls process_vms(limit=len(failed_vms));
\* process_vms reads its candidates with get_pending_vms
BackgroundPostQuery(k) ==
    /\ background[k].op = "post_vms_to_jira"
    /\ background[k].pc = "query"
    /\ LET run == background[k]
           max_retries == run.args.max_retries.n
           vm_ids == {missing[i]._id : i \in {i \in 1..Len(missing) :
                                                  retry_query(missing[i], max_retries)}}
           reset == [i \in 1..Len(missing) |->
                        IF missing[i]._id \in vm_ids
                        THEN SetFields(missing[i], [status |-> "pending_creation"])
                        ELSE missing[i]]
           retrying == run.pass = "retry_failed_vms"
           staging == IF retrying THEN reset ELSE missing
           limit == IF retrying THEN Cardinality(vm_ids)
                    ELSE IF Truthy(run.args.limit) THEN run.args.limit.n ELSE 0
           pending_vms == IF retrying /\ vm_ids = {} THEN <<>>
                          ELSE get_pending_vms(staging, limit)
       IN  /\ missing' = staging
           /\ background' =
                  [background EXCEPT
                     ![k].queue = pending_vms,
                     ![k].pc = IF pending_vms # <<>> THEN "posting"
                               ELSE IF retrying THEN "query" ELSE "done",
                     ![k].pass = IF pending_vms = <<>> THEN "process_vms" ELSE @]
    /\ UNCHANGED <<completed, next_id>>
    /\ PostRunStep("background_get_pending_vms")

\* one turn of the loop of process_vms in a background run
BackgroundPostVm(k, answer) ==
    /\ background[k].op = "post_vms_to_jira"
    /\ background[k].pc = "posting"
    /\ LET run == background[k]
           vm_doc == Head(run.queue)
           post_result == post_vm_to_jira(vm_doc, answer)
           moved == move_to_completed(missing, completed, vm_doc, post_result, "none", next_id)
           rest == Tail(run.queue)
       IN  /\ IF post_result.success
              THEN /\ missing' = moved.staging
                   /\ completed' = moved.completed
                   /\ next_id' = moved.next_id
              ELSE /\ missing' = mark_as_failed(missing, vm_doc, post_result, "none")
                   /\ UNCHANGED <<completed, next_id>>
           /\ background' =
                  [background EXCEPT
                     ![k].queue = rest,
                     ![k].posted = Append(@, vm_doc._id),
                     ![k].failed = IF post_result.success THEN @ ELSE Append(@, vm_doc._id),
                     ![k].pc = IF rest # <<>> THEN "posting"
                               ELSE IF run.pass = "retry_failed_vms" THEN "query" ELSE "done",
                     ![k].pass = IF rest = <<>> THEN "process_vms" ELSE @]
    /\ PostRunStep("background_post_vm_to_jira")

InitPostRuns ==
    /\ InitApi
    /\ store_reachable = TRUE

PostRunStart == \E k \in 1..Len(background) : BackgroundPostStart(k)
PostRunQuery == \E k \in 1..Len(background) : BackgroundPostQuery(k)
PostRunTurn ==
    \E k \in 1..Len(background) :
        \E answer \in {a \in Answers : a.kind = "http" /\ a.status_code \in {201, 401}} :
            BackgroundPostVm(k, answer)

NextPostRuns ==
    \/ PostAsync
    \/ PostRunStart
    \/ PostRunQuery
    \/ PostRunTurn

SpecPostRuns == InitPostRuns /\ [][NextPostRuns]_vars

\* the posting runs handed to the pool so far
PostRuns == {k \in 1..Len(background) : background[k].op = "post_vms_to_jira"}

Ids(seq) == {seq[i] : i \in 1..Len(seq)}

\* the failed attempts the runs have made on the record with an id
FailedAttempts(id) ==
    {<<k, i>> \in PostRuns \X (1..MaxVMs * 2) :
        i <= Len(background[k].failed) /\ background[k].failed[i] = id}

\* C26: two posting runs executing concurrently over the same staging
\* collection never both submit the same staging record to the catalog (a
\* run submits a record only while it is still pending in staging, not after
\* the other run has disposed of it), and a failed attempt of each run is
\* reflected in retry_count: it is one more than the stored count before.
C26_ConcurrentRunsDisjoint ==
    [][ \A k \in PostRuns :
            (k <= Len(background') /\ background'[k].posted # background[k].posted) =>
                LET vm_doc == Head(background[k].queue)
                    failed == background'[k].failed # background[k].failed
                IN  \E j \in WithId(missing, vm_doc._id) :
                        /\ missing[j].status = "pending_creation"
                        /\ failed =>
                              \E i \in WithId(missing', vm_doc._id) :
                                  missing'[i].retry_count =
                                      PyInt(Get(missing[j], "retry_count", PyInt(0)).n + 1)
      ]_vars

\* two runs have each been answered 401 for the same record and its
\* retry_count is 1
C26_SameRecordFailedTwiceCountedOnce ==
    \E k, l \in PostRuns :
        /\ k # l
        /\ \E j \in 1..Len(missing) :
               /\ missing[j]._id \in Ids(background[k].failed)
               /\ missing[j]._id \in Ids(background[l].failed)
               /\ Cardinality(FailedAttempts(missing[j]._id)) = 2
               /\ missing[j].retry_count = PyInt(1)

(***************************************************************************)
(* ProcessingService.collect_vms and the batch worker process_vm_batch     *)
(***************************************************************************)
\* a session handle: SmartConnect opens it, Disconnect closes it
Disconnect_skipped(si) == si

Disconnect(si) == "closed"

\* get_all_vm_refs: one reference per VM of the inventory
get_all_vm_refs(inventory) ==
    [ i \in 1..Len(inventory) |->
        [ vmid |-> inventory[i].moId, name |-> inventory[i].name,
          uuid |-> IF inventory[i].config.present THEN Str(inventory[i].config.uuid)
                   ELSE None ] ]

\* find_vm_by_ref: FindByUuid when the reference has a uuid, else the first VM
\* of the container view with the reference's moId; 0 when there is none
find_vm_by_ref(inventory, vm_ref) ==
    LET by_uuid == {i \in 1..Len(inventory) :
                       /\ Truthy(vm_ref.uuid)
                       /\ inventory[i].config.present
                       /\ Str(inventory[i].config.uuid) = vm_ref.uuid}
        by_moid == {i \in 1..Len(inventory) : inventory[i].moId = vm_ref.vmid}
    IN  IF by_uuid # {} THEN Min(by_uuid)
        ELSE IF by_moid # {} THEN Min(by_moid) ELSE 0

\* what can go wrong with one reference in a worker
RefFaults == {"none", "lookup_fails", "extract_fails"}

\* a mutant of extract_batch: the first failure ends the loop
RECURSIVE extract_batch_until_failure(_, _, _)
extract_batch_until_failure(inventory, vm_ref_batch, faults) ==
    IF vm_ref_batch = <<>> THEN [vm_data |-> <<>>, processed |-> 0, errors |-> 0]
    ELSE LET i == IF Head(faults) = "lookup_fails" THEN 0
                  ELSE find_vm_by_ref(inventory, Head(vm_ref_batch))
             rest == extract_batch_until_failure(inventory, Tail(vm_ref_batch), Tail(faults))
         IN  IF i = 0 \/ Head(faults) = "extract_fails"
             THEN [vm_data |-> <<>>, processed |-> 0, errors |-> 1]
             ELSE [rest EXCEPT !.vm_data = <<extract_vm_data(inventory[i])>> \o @,
                               !.processed = @ + 1]

\* the loop of process_vm_batch over the references of its batch
RECURSIVE extract_batch(_, _, _)
extract_batch(inventory, vm_ref_batch, faults) ==
    IF vm_ref_batch = <<>> THEN [vm_data |-> <<>>, processed |-> 0, errors |-> 0]
    ELSE LET i == IF Head(faults) = "lookup_fails" THEN 0
                  ELSE find_vm_by_ref(inventory, Head(vm_ref_batch))
             rest == extract_batch(inventory, Tail(vm_ref_batch), Tail(faults))
         IN  IF i = 0 \/ Head(faults) = "extract_fails"
             THEN [rest EXCEPT !.errors = @ + 1]
             ELSE [rest EXCEPT !.vm_data = <<extract_vm_data(inventory[i])>> \o @,
                               !.processed = @ + 1]

\* process_vm_batch once its session is open: the loop, then one bulk write
\* when anything was extracted; the write's own counts are only logged
process_vm_batch(coll, id, inventory, vm_ref_batch, faults) ==
    LET batch == extract_batch(inventory, vm_ref_batch, faults)
        result == bulk_upsert_vms(coll, batch.vm_data, id)
    IN  [ coll |-> result.coll, next_id |-> result.next_id,
          processed |-> batch.processed, errors |-> batch.errors,
          batch_vm_data |-> batch.vm_data, upserted |-> result.upserted,
          modified |-> result.modified, write_errors |-> result.errors,
          outcomes |-> result.outcomes ]

\* vm_refs[i:i + batch_size] for i in range(0, len(vm_refs), batch_size)
RECURSIVE chunks(_, _)
chunks(vm_refs, batch_size) ==
    IF Len(vm_refs) <= batch_size THEN (IF vm_refs = <<>> THEN <<>> ELSE <<vm_refs>>)
    ELSE <<SubSeq(vm_refs, 1, batch_size)>>
             \o chunks(SubSeq(vm_refs, batch_size + 1, Len(vm_refs)), batch_size)

\* a batch handed to the pool
Batch(vm_ref_batch) ==
    [ vm_refs |-> vm_ref_batch, pc |-> "queued", si |-> "none", processed |-> 0,
      errors |-> 0, write_errors |-> 0, faults |-> <<>> ]

NoResult == [status |-> "none", total_vms |-> 0, processed_vms |-> 0, errors |-> 0]

ErrorResult == [status |-> "error", total_vms |-> 0, processed_vms |-> 0, errors |-> 0]

\* what a step of a collection run leaves alone
CollectionStep(step) ==
    /\ last_op' = step
    /\ UNCHANGED <<jira, missing, completed, current_object_type_id,
                   current_object_schema_id, jira_service_token, refdata, clock, poster,
                   diff_result, last_post, response, background, store_reachable, call, jira_service>>

\* collect_vms up to the start of the pool: connect, enumerate, split into
\* batches, disconnect
CollectVmsRun(inventory, batch_size, max_processes, connected) ==
    /\ collection.pc \in {"idle", "done"}
    /\ ops < MaxOps
    /\ LET vm_refs == get_all_vm_refs(inventory)
           vm_ref_batches == chunks(vm_refs, batch_size)
           run == [NoCollection EXCEPT !.inventory = inventory,
                                       !.max_processes = max_processes,
                                       !.before = vcenter]
       IN  collection' =
               IF ~connected THEN [run EXCEPT !.pc = "done", !.result = ErrorResult]
               ELSE IF vm_refs = <<>>
               THEN [run EXCEPT !.pc = "done", !.si = Disconnect("open"),
                                !.result = ErrorResult]
               ELSE [run EXCEPT !.pc = "pool", !.si = Disconnect("open"),
                                !.batches = [b \in 1..Len(vm_ref_batches) |->
                                                Batch(vm_ref_batches[b])]]
    /\ ops' = ops + 1
    /\ UNCHANGED <<vcenter, next_id, upsert_result>>
    /\ CollectionStep("collect_vms")

\* a free pool worker takes the next batch of the task queue and opens its
\* own session
WorkerConnect(b, connected) ==
    /\ collection.pc = "pool"
    /\ collection.batches[b].pc = "queued"
    /\ \A c \in 1..(b - 1) : collection.batches[c].pc # "queued"
    /\ Cardinality({c \in 1..Len(collection.batches) :
                        collection.batches[c].pc = "connected"}) < collection.max_processes
    /\ collection' =
           IF connected
           THEN [collection EXCEPT !.batches[b].pc = "connected", !.batches[b].si = "open"]
           ELSE [collection EXCEPT !.batches[b].pc = "done",
                                   !.batches[b].errors = Len(collection.batches[b].vm_refs)]
    /\ UNCHANGED <<vcenter, next_id, upsert_result, ops>>
    /\ CollectionStep("connect_vcenter")

\* the rest of process_vm_batch: the loop, the bulk write, the result and the
\* Disconnect of the finally clause
WorkerProcess(b, faults) ==
    /\ collection.pc = "pool"
    /\ collection.batches[b].pc = "connected"
    /\ Len(faults) = Len(collection.batches[b].vm_refs)
    /\ LET done == process_vm_batch(vcenter, next_id, collection.inventory,
                                    collection.batches[b].vm_refs, faults)
       IN  /\ vcenter' = done.coll
           /\ next_id' = done.next_id
           /\ upsert_result' = IF done.batch_vm_data = <<>> THEN upsert_result
                               ELSE [ batch |-> done.batch_vm_data,
                                      upserted |-> done.upserted,
                                      modified |-> done.modified,
                                      errors |-> done.write_errors,
                                      outcomes |-> done.outcomes ]
           /\ collection' =
                  [collection EXCEPT !.batches[b].pc = "done",
                                     !.batches[b].si = Disconnect(@),
                                     !.batches[b].processed = done.processed,
                                     !.batches[b].errors = done.errors,
                                     !.batches[b].write_errors = done.write_errors,
                                     !.batches[b].faults = faults,
                                     !.order = Append(@, b)]
    /\ UNCHANGED ops
    /\ CollectionStep("process_vm_batch")

RECURSIVE Sum(_, _)
Sum(seq, field) == IF seq = <<>> THEN 0 ELSE Head(seq)[field] + Sum(Tail(seq), field)

\* pool.map has returned: the counts of the batches are added up
CollectVmsReturn ==
    /\ collection.pc = "pool"
    /\ \A b \in 1..Len(collection.batches) : collection.batches[b].pc = "done"
    /\ collection' =
           [collection EXCEPT !.pc = "done",
                              !.result = [ status |-> "success",
                                           total_vms |-> Len(collection.inventory),
                                           processed_vms |-> Sum(collection.batches, "processed"),
                                           errors |-> Sum(collection.batches, "errors") ]]
    /\ UNCHANGED <<vcenter, next_id, upsert_result, ops>>
    /\ CollectionStep("collect_vms_return")

\* the hypervisor inventories: the first n VMs, each as some pass may see it
RECURSIVE Inventories(_)
Inventories(n) ==
    IF n = 0 THEN {<<>>}
    ELSE LET shorter == Inventories(n - 1)
         IN  shorter \cup {Append(inv, vm) : inv \in {s \in shorter : Len(s) = n - 1},
                                             vm \in VmObjects(n)}

RECURSIVE FaultSeqs(_)
FaultSeqs(n) ==
    IF n = 0 THEN {<<>>} ELSE {Append(f, x) : f \in FaultSeqs(n - 1), x \in RefFaults}

\* what an earlier collection pass over the first VM left in the collection
EarlierPass ==
    /\ collection.pc = "idle"
    /\ vcenter = <<>>
    /\ \E vm_data_list \in Batches(1) \ {<<>>} : BulkUpsertVms(vm_data_list)

\* the collection run a behaviour follows
StartCollection ==
    /\ collection.pc = "idle"
    /\ \E inventory \in Inventories(MaxVMs), batch_size \in 1..2, max_processes \in 1..2,
          connected \in BOOLEAN :
           CollectVmsRun(inventory, batch_size, max_processes, connected)

ConnectWorker ==
    \E b \in 1..Len(collection.batches), connected \in BOOLEAN : WorkerConnect(b, connected)

RunWorker ==
    \E b \in 1..Len(collection.batches) :
        \E faults \in FaultSeqs(Len(collection.batches[b].vm_refs)) : WorkerProcess(b, faults)

NextCollect ==
    \/ EarlierPass
    \/ StartCollection
    \/ ConnectWorker
    \/ RunWorker
    \/ CollectVmsReturn

SpecCollect == InitStore /\ [][NextCollect]_vars

(***************************************************************************)
(* C27: a bulk write's failed operations in the counts of the run          *)
(***************************************************************************)
CollectionDone == collection.pc = "done" /\ collection.result.status = "success"

\* the records a batch handed to bulk_upsert_vms and the store accepted
Stored(batch) == batch.processed - batch.write_errors

RECURSIVE SumStored(_)
SumStored(seq) == IF seq = <<>> THEN 0 ELSE Stored(Head(seq)) + SumStored(Tail(seq))

\* C27: when the bulk upserts of a collection run report failed write
\* operations, the run's errors include them and its processed_vms does not
\* count them
C27_WriteErrorsFolded ==
    CollectionDone =>
        /\ collection.result.errors
               = Sum(collection.batches, "errors") + Sum(collection.batches, "write_errors")
        /\ collection.result.processed_vms = SumStored(collection.batches)

\* a finished run that reports no error although one write of a batch failed,
\* while the other record of the run is stored
C27_WriteErrorNotCounted ==
    /\ CollectionDone
    /\ Sum(collection.batches, "write_errors") = 1
    /\ collection.result.errors = 0
    /\ collection.result.processed_vms = collection.result.total_vms
    /\ Len(vcenter) = collection.result.total_vms - 1

(***************************************************************************)
(* C28: one failure costs one error, a batch is never abandoned            *)
(***************************************************************************)
RECURSIVE Failures(_)
Failures(faults) ==
    IF faults = <<>> THEN 0
    ELSE (IF Head(faults) = "none" THEN 0 ELSE 1) + Failures(Tail(faults))

\* C28: a finished batch whose session did not open reports processed = 0 and
\* errors = its size and is not taken again; a finished batch with a session
\* reports one error per reference whose lookup or extraction failed and has
\* processed every other reference; so processed + errors is the batch size,
\* and processed_vms + errors of a finished run is total_vms
C28_BatchFailureIsolation ==
    /\ \A b \in 1..Len(collection.batches) :
           LET batch == collection.batches[b]
           IN  batch.pc = "done" =>
                   /\ batch.si = "none" =>
                          batch.processed = 0 /\ batch.errors = Len(batch.vm_refs)
                   /\ batch.si # "none" =>
                          /\ batch.errors = Failures(batch.faults)
                          /\ batch.processed = Len(batch.vm_refs) - Failures(batch.faults)
                   /\ batch.processed + batch.errors = Len(batch.vm_refs)
    /\ CollectionDone =>
           collection.result.processed_vms + collection.result.errors
               = collection.result.total_vms

\* a finished run with a batch of two whose first reference failed and whose
\* second was processed and stored
C28_FailureThenProcessed ==
    /\ CollectionDone
    /\ \E b \in 1..Len(collection.batches) :
           LET batch == collection.batches[b]
           IN  /\ Len(batch.vm_refs) = 2 /\ Len(batch.faults) = 2
               /\ batch.faults[1] # "none" /\ batch.faults[2] = "none"
               /\ batch.processed = 1 /\ batch.errors = 1
    /\ collection.result.processed_vms = 1
    /\ collection.result.errors = 1

(***************************************************************************)
(* C29: the sessions of a collection run                                   *)
(***************************************************************************)
WorkerStarted(batch) == batch.pc # "queued"

\* C29: once a worker has started, the session collect_vms opened is closed;
\* a worker that runs holds a session of its own; when the run has ended no
\* session of it is open; a result exists only when every batch has finished
C29_SessionLifecycle ==
    /\ \A b \in 1..Len(collection.batches) :
           LET batch == collection.batches[b]
           IN  /\ WorkerStarted(batch) => collection.si = "closed"
               /\ batch.pc = "connected" => batch.si = "open"
               /\ batch.pc = "done" => batch.si # "open"
    /\ collection.pc = "done" =>
           /\ collection.si # "open"
           /\ \A b \in 1..Len(collection.batches) : collection.batches[b].si # "open"
    /\ collection.result.status # "none" =>
           \A b \in 1..Len(collection.batches) : collection.batches[b].pc = "done"

\* two workers hold their own open sessions while the session of collect_vms
\* is closed
C29_WorkersHoldOwnSessions ==
    /\ collection.pc = "pool"
    /\ collection.si = "closed"
    /\ Len(collection.batches) = 2
    /\ \A b \in 1..2 : collection.batches[b].pc = "connected"
                         /\ collection.batches[b].si = "open"

(***************************************************************************)
(* C30: the order in which the workers write                               *)
(***************************************************************************)
\* the documents of a collection, apart from the identifier the store gave
Content(coll) ==
    {[f \in DOMAIN coll[i] \ {"_id"} |-> coll[i][f]] : i \in 1..Len(coll)}

\* the collection after the batches from b on have written one after the
\* other in the order of the batch list, each with the failures it had
RECURSIVE InBatchOrder(_, _, _)
InBatchOrder(coll, id, b) ==
    IF b > Len(collection.batches) THEN coll
    ELSE LET batch == collection.batches[b]
             done == process_vm_batch(coll, id, collection.inventory, batch.vm_refs,
                                      batch.faults)
         IN  IF batch.si = "none" THEN InBatchOrder(coll, id, b + 1)
             ELSE InBatchOrder(done.coll, done.next_id, b + 1)

\* C30: after a collection run the collection holds what it holds when the
\* workers write in the order of the batch list, whatever order they wrote in
C30_ContentIndependentOfOrder ==
    CollectionDone =>
        Content(vcenter) = Content(InBatchOrder(collection.before, next_id, 1))

\* the second batch wrote before the first and the collection differs from
\* the one the order of the batch list gives
C30_LaterBatchWroteFirst ==
    /\ CollectionDone
    /\ collection.order = <<2, 1>>
    /\ Content(vcenter) # Content(InBatchOrder(collection.before, next_id, 1))

(***************************************************************************)
(* JiraService.get_all_vm_objects: the paginated pull of the catalog       *)
(***************************************************************************)
results_per_page == 100

MaxPages == 3      \* full pages the catalog serves before a page that ends the pull

\* the entries of a page: the catalog's objects, told apart by page and place
PageEntries(page, n) == [i \in 1..n |-> [page |-> page, index |-> i]]

HttpPage(status_code, objectEntries) ==
    [kind |-> "http", status_code |-> status_code, objectEntries |-> objectEntries]

RequestRaises == [kind |-> "raises", status_code |-> 0, objectEntries |-> <<>>]

\* a page that makes the loop go on, a page that ends it
FullPages(page) ==
    {HttpPage(200, PageEntries(page, n)) : n \in {results_per_page, results_per_page + 1}}

EndPages(page) ==
    {HttpPage(200, PageEntries(page, n)) : n \in {0, 1, results_per_page \div 2, results_per_page - 1}}
        \cup {HttpPage(500, <<>>), HttpPage(401, PageEntries(page, 1)), RequestRaises}

\* the frame of get_all_vm_objects when its loop starts
PullStarted ==
    [fn |-> "get_all_vm_objects", pc |-> "loop", page |-> 1, all_vms |-> <<>>,
     requested |-> <<>>, value |-> <<>>]

PullReturned(frame, value) == [frame EXCEPT !.pc = "returned", !.value = value]

\* a mutant of load_page: a page that is not 200 throws the earlier pages away
load_page_drop_on_error(frame, page_response) ==
    LET asked == [frame EXCEPT !.requested = Append(@, [page |-> frame.page,
                                                        response |-> page_response])]
        vm_objects == page_response.objectEntries
        all_vms == frame.all_vms \o vm_objects
    IN  IF page_response.kind = "raises" THEN PullReturned(asked, <<>>)
        ELSE IF page_response.status_code # 200 THEN PullReturned(asked, <<>>)
        ELSE IF vm_objects = <<>> THEN PullReturned(asked, frame.all_vms)
        ELSE IF Len(vm_objects) < results_per_page
        THEN PullReturned([asked EXCEPT !.all_vms = all_vms], all_vms)
        ELSE [asked EXCEPT !.all_vms = all_vms, !.page = @ + 1]

\* one turn of the while loop: the request for frame.page and what follows it
load_page(frame, page_response) ==
    LET asked == [frame EXCEPT !.requested = Append(@, [page |-> frame.page,
                                                        response |-> page_response])]
        vm_objects == page_response.objectEntries
        all_vms == frame.all_vms \o vm_objects
    IN  IF page_response.kind = "raises" THEN PullReturned(asked, <<>>)
        ELSE IF page_response.status_code # 200 THEN PullReturned(asked, frame.all_vms)
        ELSE IF vm_objects = <<>> THEN PullReturned(asked, frame.all_vms)
        ELSE IF Len(vm_objects) < results_per_page
        THEN PullReturned([asked EXCEPT !.all_vms = all_vms], all_vms)
        ELSE [asked EXCEPT !.all_vms = all_vms, !.page = @ + 1]

\* what a step of the pull leaves alone
PullStep(step) ==
    /\ last_op' = step
    /\ UNCHANGED <<vcenter, jira, missing, completed, current_object_type_id,
                   current_object_schema_id, jira_service_token, refdata, next_id, clock,
                   poster, diff_result, last_post, ops, response, background,
                   store_reachable, upsert_result, collection, jira_service>>

\* get_all_vm_objects up to its loop: without a session it returns []
GetAllVmObjects(session) ==
    /\ call = NoCall
    /\ call' = IF session THEN PullStarted ELSE PullReturned(PullStarted, <<>>)
    /\ PullStep("get_all_vm_objects")

LoadPage(page_response) ==
    /\ call.fn = "get_all_vm_objects"
    /\ call.pc = "loop"
    /\ call' = load_page(call, page_response)
    /\ PullStep("load_page")

StartPull == \E session \in BOOLEAN : GetAllVmObjects(session)

\* the catalog answers the request for the next page
LoadNextPage ==
    /\ call.fn = "get_all_vm_objects"
    /\ call.pc = "loop"
    /\ \E page_response \in EndPages(call.page)
                       \cup (IF call.page <= MaxPages THEN FullPages(call.page) ELSE {}) :
           LoadPage(page_response)

NextPull == StartPull \/ LoadNextPage

SpecPull == InitStore /\ [][NextPull]_vars /\ WF_vars(LoadNextPage)

Pulling == call.fn = "get_all_vm_objects"

\* the entries of the pages answered with 200, in the order of the requests
RECURSIVE Fetched(_)
Fetched(requested) ==
    IF requested = <<>> THEN <<>>
    ELSE (IF Head(requested).response.status_code = 200
          THEN Head(requested).response.objectEntries ELSE <<>>)
             \o Fetched(Tail(requested))

EndsPull(page_response) ==
    page_response.status_code # 200 \/ Len(page_response.objectEntries) < results_per_page

NoneRaised(requested) ==
    \A i \in 1..Len(requested) : requested[i].response.kind = "http"

\* C31: the pull asks for the pages 1, 2, 3, ... in this order; it goes on
\* only after a 200 page of at least 100 entries, and when it has returned
\* after answered requests its last page was a page of fewer than 100 entries
\* or a page that is not 200, and its value is the entries of the 200 pages
\* in order
C31_PagesInOrder ==
    Pulling =>
        /\ \A i \in 1..Len(call.requested) : call.requested[i].page = i
        /\ \A i \in 1..(Len(call.requested) - 1) : ~EndsPull(call.requested[i].response)
        /\ (call.pc = "loop" /\ call.requested # <<>>) =>
               ~EndsPull(call.requested[Len(call.requested)].response)
        /\ (call.pc = "returned" /\ call.requested # <<>>
                /\ NoneRaised(call.requested)) =>
               /\ EndsPull(call.requested[Len(call.requested)].response)
               /\ call.value = Fetched(call.requested)

DEFAULT_API_URL == <<"j", "i", "r", "a", "-", "s", "u", "p", "p", "o", "r", "t">>

BEARER == <<"B", "e", "a", "r", "e", "r", " ">>

SESSION_COOKIE == <<"J", "S", "E", "S", "S", "I", "O", "N", "I", "D", "=", "1">>

\* JiraService.__init__: every argument falls back to its default when falsy
JiraService(api_url, token, object_type_id, object_schema_id, cookie) ==
    [ api_url |-> Or(api_url, Str(DEFAULT_API_URL)),
      token |-> Or(token, Str(YOUR_TOKEN_HERE)),
      object_type_id |-> Or(object_type_id, Str(DEFAULT_OBJECT_TYPE_ID)),
      object_schema_id |-> Or(object_schema_id, Str(DEFAULT_OBJECT_SCHEMA_ID)),
      cookie |-> Or(cookie, Str(<<>>)),
      session |-> None,
      sent |-> <<>> ]

Constructed(service) == "token" \in DOMAIN service

\* the headers of a new requests.Session
default_headers ==
    [ t \in {"User-Agent", "Accept-Encoding", "Accept", "Connection"} |->
        CASE t = "User-Agent" -> Txt("python-requests")
          [] t = "Accept-Encoding" -> Txt("gzip, deflate")
          [] t = "Accept" -> Txt("*/*")
          [] t = "Connection" -> Txt("keep-alive") ]

json_headers ==
    [ t \in {"Content-Type", "Accept"} |-> Txt("application/json") ]

\* the headers dict get_session builds from the token and the cookie
auth_headers(service) ==
    (IF Truthy(service.token) /\ service.token # Str(YOUR_TOKEN_HERE)
     THEN [t \in {"Authorization"} |-> Str(BEARER \o service.token.s)]
     ELSE <<>>)
    @@ (IF Truthy(service.cookie) THEN [t \in {"Cookie"} |-> service.cookie] ELSE <<>>)
    @@ [t \in {"User-Agent"} |-> Txt("VMware-Collector/1.0")]
    @@ json_headers

cookie_headers(service) == [t \in {"Cookie"} |-> service.cookie] @@ json_headers

\* session.headers.update(headers); the headers of a request are those of the
\* call merged over those of the session
update(headers, more) == more @@ headers

Session(headers) == [t |-> "Session", headers |-> headers]

Sent(kind, headers, answer) ==
    [kind |-> kind, headers |-> headers, status_code |-> answer.status_code]

\* a mutant of get_session: the session keeps its headers whatever the probes say
get_session_keeps_headers(service, created, probe, retry) ==
    IF Truthy(service.session) THEN [service |-> service, value |-> service.session]
    ELSE IF ~created THEN [service |-> service, value |-> None]
    ELSE LET headers == update(default_headers, auth_headers(service))
             retried == probe.kind = "http" /\ probe.status_code = 401
                            /\ Truthy(service.cookie)
             sent == <<Sent("probe", headers, probe)>>
                         \o (IF retried
                             THEN <<Sent("retry", update(headers, cookie_headers(service)),
                                         retry)>>
                             ELSE <<>>)
             session == Session(headers)
         IN  [ service |-> [service EXCEPT !.session = session, !.sent = @ \o sent],
               value |-> session ]

\* get_session: the session kept by the service, or a new one that is probed,
\* probed again with the cookie headers after a 401, and kept
get_session(service, created, probe, retry) ==
    IF Truthy(service.session) THEN [service |-> service, value |-> service.session]
    ELSE IF ~created THEN [service |-> service, value |-> None]
    ELSE LET headers == update(default_headers, auth_headers(service))
             retried == probe.kind = "http" /\ probe.status_code = 401
                            /\ Truthy(service.cookie)
             sent == <<Sent("probe", headers, probe)>>
                         \o (IF retried
                             THEN <<Sent("retry", update(headers, cookie_headers(service)),
                                         retry)>>
                             ELSE <<>>)
             session == IF retried /\ retry.kind = "http" /\ retry.status_code = 200
                        THEN Session(cookie_headers(service))
                        ELSE Session(headers)
         IN  [ service |-> [service EXCEPT !.session = session, !.sent = @ \o sent],
               value |-> session ]

\* what a step of a JiraService leaves alone
ServiceStep(step) ==
    /\ last_op' = step
    /\ UNCHANGED <<vcenter, jira, missing, completed, current_object_type_id,
                   current_object_schema_id, jira_service_token, refdata, next_id, clock,
                   poster, diff_result, last_post, response, background,
                   store_reachable, upsert_result, collection>>

NewJiraService(token, cookie) ==
    /\ jira_service = NoJiraService
    /\ jira_service' = JiraService(None, token, None, None, cookie)
    /\ UNCHANGED <<ops, call>>
    /\ ServiceStep("JiraService")

GetSession(created, probe, retry) ==
    /\ Constructed(jira_service)
    /\ ops < MaxOps
    /\ LET got == get_session(jira_service, created, probe, retry)
       IN  /\ jira_service' = got.service
           /\ call' = [fn |-> "get_session", value |-> got.value]
    /\ ops' = ops + 1
    /\ ServiceStep("get_session")

\* session.post(self.api_url, json=payload) of a later request
SessionPost ==
    /\ Constructed(jira_service)
    /\ Truthy(jira_service.session)
    /\ ops < MaxOps
    /\ jira_service' =
           [jira_service EXCEPT
               !.sent = Append(@, Sent("request", jira_service.session.headers,
                                       HttpPage(200, <<>>)))]
    /\ ops' = ops + 1
    /\ UNCHANGED call
    /\ ServiceStep("session_post")

TOKEN_HERE == <<"t", "o", "k", "e", "n", "_", "h", "e", "r", "e">>

\* the jira_config dict collect_jira_vms builds from its arguments
collect_jira_vms_config(args) ==
    [ api_url |-> Or(args.api_url, Str(DEFAULT_API_URL)),
      token |-> Or(args.token, Str(TOKEN_HERE)),
      object_type_id |-> Or(args.object_type_id, Str(DEFAULT_OBJECT_TYPE_ID)),
      object_schema_id |-> Or(args.object_schema_id, Str(DEFAULT_OBJECT_SCHEMA_ID)),
      cookie |-> Or(args.cookie, Str(<<>>)) ]

\* the JiraService collect_jira_vms and process_jira_vm_batch construct from
\* that dict: the token is the literal 'token_here', the cookie is not passed
jira_service_of(jira_config) ==
    JiraService(jira_config.api_url, Str(TOKEN_HERE), jira_config.object_type_id,
                jira_config.object_schema_id, None)

\* collect_jira_vms up to the start of the pool, and the services of the
\* workers of its batches
CollectJiraVms(request, batches) ==
    /\ jira_service = NoJiraService
    /\ LET args == collect_jira_vms_args(request)
           jira_config == collect_jira_vms_config(args)
       IN  /\ jira_service' = jira_service_of(jira_config)
           /\ call' = [ fn |-> "collect_jira_vms", request |-> request,
                        jira_config |-> jira_config,
                        workers |-> [b \in 1..batches |-> jira_service_of(jira_config)] ]
    /\ UNCHANGED ops
    /\ ServiceStep("collect_jira_vms")

\* a catalog configuration of a request body with every field set
FullJiraConfig ==
    [ JiraConfig(API_TOKEN, <<"9">>, <<"7">>) EXCEPT !.cookie = Str(SESSION_COOKIE) ]

CollectJiraVmsCall ==
    \E request \in JiraCollectionRequests
                      \cup {[ kind |-> "JiraCollectionRequest", jira_config |-> FullJiraConfig,
                              batch_size |-> PyInt(50), max_processes |-> PyInt(8) ]},
       batches \in 0..2 :
        CollectJiraVms(request, batches)

ProbeAnswers == {HttpPage(200, <<>>), HttpPage(401, <<>>), HttpPage(500, <<>>), RequestRaises}

ConstructService ==
    \E token \in {None, Str(API_TOKEN)}, cookie \in {None, Str(SESSION_COOKIE)} :
        NewJiraService(token, cookie)

OpenSession ==
    \E created \in BOOLEAN, probe \in ProbeAnswers, retry \in ProbeAnswers :
        GetSession(created, probe, retry)

NextSession == ConstructService \/ CollectJiraVmsCall \/ OpenSession \/ SessionPost

SpecSession == InitStore /\ [][NextSession]_vars

\* the requests of one kind this service has sent
SentOf(kind) ==
    {i \in 1..Len(jira_service.sent) : jira_service.sent[i].kind = kind}

\* the first probe was answered 401, a cookie is set and the probe sent with
\* the cookie headers was answered 200
CookieProbeWorked ==
    /\ \E i \in SentOf("probe") : jira_service.sent[i].status_code = 401
    /\ Truthy(jira_service.cookie)
    /\ \E i \in SentOf("retry") : jira_service.sent[i].status_code = 200

ConfigFields == {"api_url", "token", "object_type_id", "object_schema_id", "cookie"}

\* a service uses every value the configuration of the request supplies
UsesConfig(service, jira_config) ==
    \A f \in ConfigFields : Truthy(jira_config[f]) => service[f] = jira_config[f]

\* C33: after collect_jira_vms was called for a request with a catalog
\* configuration, the service that enumerates and the service of every batch
\* worker hold the api_url, token, cookie, object type id and schema id of
\* that configuration
C33_CallerConfigUsed ==
    (call.fn = "collect_jira_vms" /\ Truthy(call.request.jira_config)) =>
        /\ UsesConfig(jira_service, call.request.jira_config)
        /\ \A b \in 1..Len(call.workers) :
               UsesConfig(call.workers[b], call.request.jira_config)

\* a request with token and cookie whose services hold the caller's api_url
\* and ids but the token 'token_here' and no cookie
C33_TokenAndCookieDropped ==
    /\ call.fn = "collect_jira_vms"
    /\ call.request.jira_config = FullJiraConfig
    /\ Len(call.workers) = 2
    /\ \A service \in {jira_service, call.workers[1], call.workers[2]} :
           /\ service.api_url = FullJiraConfig.api_url
           /\ service.object_type_id = FullJiraConfig.object_type_id
           /\ service.object_schema_id = FullJiraConfig.object_schema_id
           /\ service.token = Str(TOKEN_HERE)
           /\ service.cookie = Str(<<>>)

(***************************************************************************)
(* C34: staging records without a payload                                  *)
(***************************************************************************)
PayloadKinds == {"built", "empty", "none", "missing"}

\* a staging record as reconciliation wrote it, or with its payload emptied,
\* set to null or removed
WithPayload(doc, kind) ==
    CASE kind = "empty" -> [doc EXCEPT !.jira_asset_payload = <<>>]
      [] kind = "none" -> [doc EXCEPT !.jira_asset_payload = None]
      [] kind = "missing" -> [k \in DOMAIN doc \ {"jira_asset_payload"} |-> doc[k]]
      [] OTHER -> doc

StagedPayloads ==
    { [i \in 1..Len(StagedPipeline.staging) |->
          WithPayload(StagedPipeline.staging[i], kinds[i])]
      : kinds \in [1..Len(StagedPipeline.staging) -> PayloadKinds] }

InitBare ==
    /\ vcenter = PipelineVMs
    /\ refdata = NoRefdata
    /\ jira = <<>>
    /\ missing \in StagedPayloads
    /\ completed = <<>>
    /\ current_object_type_id = Str(DEFAULT_OBJECT_TYPE_ID)
    /\ current_object_schema_id = Str(DEFAULT_OBJECT_SCHEMA_ID)
    /\ jira_service_token = Str(YOUR_TOKEN_HERE)
    /\ next_id = StagedPipeline.next_id
    /\ clock = StagedPipeline.clock
    /\ poster = Idle
    /\ diff_result = NoDiff
    /\ last_post = NoPost
    /\ last_op = "init"
    /\ ops = 0
    /\ response = NoResponse
    /\ background = <<>>
    /\ store_reachable = TRUE
    /\ upsert_result = NoUpsert
    /\ call = NoCall
    /\ collection = NoCollection
    /\ jira_service = NoJiraService

NextBare == PostToJira \/ Post \/ Retry \/ RetryProcessVms

SpecBare == InitBare /\ [][NextBare]_vars

StoredWithId(coll, id) == coll[CHOOSE i \in 1..Len(coll) : coll[i]._id = id]

\* a staging record whose jira_asset_payload is absent, null or an empty dict
NoPayload(vm_doc) ==
    \/ "jira_asset_payload" \notin DOMAIN vm_doc
    \/ vm_doc.jira_asset_payload \in {None, <<>>}

\* C34: a turn of the posting loop for a record whose payload is empty, null
\* or missing sends nothing to the catalog, creates no completed record and
\* leaves the record 'failed' with retry_count one higher and a null
\* failure_status_code
C34_EmptyPayloadFailsUnsent ==
    [][ (PostTurn /\ NoPayload(Head(poster.queue))) =>
            LET vm_doc == Head(poster.queue)
                before == StoredWithId(missing, vm_doc._id)
                after == StoredWithId(missing', vm_doc._id)
            IN  /\ last_post'.request = None
                /\ last_post'.answer.kind = "none"
                /\ completed' = completed
                /\ after.status = "failed"
                /\ after.retry_count = PyInt(Get(before, "retry_count", PyInt(0)).n + 1)
                /\ after.failure_status_code = None ]_vars

\* the record of v1 has no payload field and was marked failed a second
\* time, on the retry pass, without a request
C34_MissingPayloadFailedTwice ==
    /\ last_post.request = None
    /\ last_post.op = "retry_failed_vms"
    /\ last_post.vm_doc # <<>>
    /\ "jira_asset_payload" \notin DOMAIN last_post.vm_doc
    /\ \E j \in 1..Len(missing) :
           /\ missing[j]._id = last_post.vm_doc._id
           /\ missing[j].status = "failed"
           /\ missing[j].retry_count = PyInt(2)
           /\ missing[j].failure_status_code = None
    /\ completed = <<>>

(***************************************************************************)
(* utils.chunk_list and the batch lists of the collection services         *)
(***************************************************************************)
MaxLen == 5        \* length of the lists handed to chunk_list

\* lst[i:j] for 0 <= i <= j
slice(lst, i, j) == SubSeq(lst, i + 1, IF j < Len(lst) THEN j ELSE Len(lst))

\* range(0, stop, step) for step >= 1
range_from_zero(stop, step) ==
    [k \in 1..((stop + step - 1) \div step) |-> (k - 1) * step]

\* a mutant of chunk_list: the slices start one element too far apart
chunk_list_gapped(lst, chunk_size) ==
    LET starts == range_from_zero(Len(lst), chunk_size + 1)
    IN  [k \in 1..Len(starts) |-> slice(lst, starts[k], starts[k] + chunk_size)]

\* [lst[i:i + chunk_size] for i in range(0, len(lst), chunk_size)]
chunk_list(lst, chunk_size) ==
    LET starts == range_from_zero(Len(lst), chunk_size)
    IN  [k \in 1..Len(starts) |-> slice(lst, starts[k], starts[k] + chunk_size)]

ChunkList(lst, chunk_size) ==
    /\ call' = [ fn |-> "chunk_list", lst |-> lst, chunk_size |-> chunk_size,
                 value |-> chunk_list(lst, chunk_size) ]
    /\ last_op' = "chunk_list"
    /\ UNCHANGED <<vcenter, jira, missing, completed, current_object_type_id,
                   current_object_schema_id, jira_service_token, refdata, next_id, clock,
                   poster, diff_result, last_post, ops, response, background,
                   store_reachable, upsert_result, collection, jira_service>>

\* the lists of up to n references, a reference possibly occurring twice
RECURSIVE ListsUpTo(_)
ListsUpTo(n) ==
    IF n = 0 THEN {<<>>}
    ELSE LET shorter == ListsUpTo(n - 1)
         IN  shorter \cup {Append(l, x) : l \in {s \in shorter : Len(s) = n - 1},
                                          x \in {"r1", "r2"}}

SplitList ==
    \E lst \in ListsUpTo(MaxLen), chunk_size \in 1..(MaxLen + 1) : ChunkList(lst, chunk_size)

NextChunk == SplitList

SpecChunk == InitStore /\ [][NextChunk]_vars

RECURSIVE Flatten(_)
Flatten(batches) == IF batches = <<>> THEN <<>> ELSE Head(batches) \o Flatten(Tail(batches))

\* C35: the batches of a list, concatenated in order, are the list; every
\* batch is non-empty and has at most chunk_size elements, every batch but
\* the last has exactly chunk_size; the slicing of collect_vms gives the same
\* batches
C35_ChunksPartitionInOrder ==
    call.fn = "chunk_list" =>
        /\ Flatten(call.value) = call.lst
        /\ \A k \in 1..Len(call.value) :
               /\ call.value[k] # <<>>
               /\ Len(call.value[k]) <= call.chunk_size
               /\ k < Len(call.value) => Len(call.value[k]) = call.chunk_size
        /\ call.value = chunks(call.lst, call.chunk_size)

\* a list of five split into two batches of two and a last batch of one
C35_ShortLastBatch ==
    /\ call.fn = "chunk_list"
    /\ Len(call.lst) = 5
    /\ call.chunk_size = 2
    /\ Len(call.value) = 3
    /\ Len(call.value[3]) = 1
    /\ call.value[3] = <<call.lst[5]>>

(***************************************************************************)
(* POST post-to-jira: the retry pass and the posting pass of one request   *)
(***************************************************************************)
\* what the catalog answers to a POST and what the store does afterwards
Turns ==
    { [answer |-> a, fault |-> f] :
        a \in {b \in Answers : b.kind = "http" /\ b.status_code \in {201, 401}},
        f \in {"none", "insert_fails", "delete_fails", "update_fails"} }

\* the turns in which the fault can strike: a store fault of move_to_completed
\* after a 201, of mark_as_failed after a 401
PossibleTurns ==
    { t \in Turns : IF t.answer.status_code = 201 THEN t.fault # "update_fails"
                    ELSE t.fault \in {"none", "update_fails"} }

RECURSIVE TurnSeqs(_)
TurnSeqs(n) ==
    IF n = 0 THEN {<<>>} ELSE {<<t>> \o ts : t \in PossibleTurns, ts \in TurnSeqs(n - 1)}

\* the loop of process_vms over its candidates: pass.turns holds what is yet
\* to happen, pass.posted the records submitted so far, pass.log each
\* submitted document with the catalog's answer and the store's fault
RECURSIVE post_each(_, _)
post_each(pass, pending_vms) ==
    IF pending_vms = <<>> THEN pass
    ELSE LET vm_doc == Head(pending_vms)
             sent == post_request(vm_doc) # None
             turn == Head(pass.turns)
             post_result == post_vm_to_jira(vm_doc, turn.answer)
             moved == move_to_completed(pass.staging, pass.completed, vm_doc, post_result,
                                        turn.fault, pass.next_id)
             disposed ==
                 IF post_result.success
                 THEN [pass EXCEPT !.staging = moved.staging,
                                   !.completed = moved.completed,
                                   !.next_id = moved.next_id,
                                   !.successful = @ + 1]
                 ELSE [pass EXCEPT !.staging = mark_as_failed(pass.staging, vm_doc,
                                                              post_result, turn.fault),
                                   !.failed = @ + 1]
             entry == [ vm_doc |-> vm_doc, status_code |-> turn.answer.status_code,
                        fault |-> turn.fault ]
         IN  post_each([disposed EXCEPT !.turns = IF sent THEN Tail(@) ELSE @,
                                        !.posted = IF sent THEN Append(@, vm_doc._id) ELSE @,
                                        !.log = IF sent THEN Append(@, entry) ELSE @],
                       Tail(pending_vms))

\* process_vms(limit) on the state a pass starts from
process_vms(pass, limit) == post_each(pass, get_pending_vms(pass.staging, limit))

\* retry_failed_vms(max_retries): the failed records below max_retries are
\* set back to 'pending_creation', then process_vms(limit=len(failed_vms))
retry_failed_vms(pass, max_retries) ==
    LET failed_vms == {i \in 1..Len(pass.staging) : retry_query(pass.staging[i], max_retries)}
        reset == [i \in 1..Len(pass.staging) |->
                     IF i \in failed_vms
                     THEN SetFields(pass.staging[i], [status |-> "pending_creation"])
                     ELSE pass.staging[i]]
    IN  IF failed_vms = {} THEN pass
        ELSE process_vms([pass EXCEPT !.staging = reset], Cardinality(failed_vms))

\* the passes of a request on the present collections, whatever the turns
\* bring: the retry pass, and the posting pass that follows it
retry_pass(request, turns) ==
    LET args == post_vms_to_jira_args(request)
        start == [ staging |-> missing, completed |-> completed, next_id |-> next_id,
                   turns |-> turns, posted |-> <<>>, log |-> <<>>, successful |-> 0,
                   failed |-> 0 ]
    IN  IF args.retry_failed THEN retry_failed_vms(start, args.max_retries.n) ELSE start

posting_pass(request, turns) ==
    LET args == post_vms_to_jira_args(request)
    IN  process_vms([retry_pass(request, turns) EXCEPT !.posted = <<>>, !.log = <<>>,
                                                       !.successful = 0, !.failed = 0],
                    IF Truthy(args.limit) THEN args.limit.n ELSE 0)

\* POST post-to-jira: the retry pass when asked for, then process_vms
PostVmsToJira(request, turns) ==
    /\ ops < MaxRuns
    /\ store_reachable
    /\ LET retried == retry_pass(request, turns)
           result == posting_pass(request, turns)
       IN  /\ missing' = result.staging
           /\ completed' = result.completed
           /\ next_id' = result.next_id
           /\ call' = [ fn |-> "post_vms_to_jira", request |-> request,
                        retry_posted |-> retried.posted, posted |-> result.posted,
                        log |-> result.log,
                        successful |-> result.successful, failed |-> result.failed ]
           /\ response' = [ endpoint |-> "post-to-jira", status_code |-> 200,
                            status |-> "success", error |-> "none", enqueued |-> 0,
                            catalog_calls |-> Len(retried.posted) + Len(result.posted),
                            request |-> request ]
    /\ last_op' = "post_vms_to_jira"
    /\ ops' = ops + 1
    /\ UNCHANGED <<vcenter, jira, current_object_type_id, current_object_schema_id,
                   jira_service_token, refdata, clock, poster, diff_result, last_post,
                   background, store_reachable, upsert_result, collection, jira_service>>

\* turns nobody looks at: the passes submit fewer records than there are turns
Spare == [k \in 1..(2 * MaxVMs) |-> CHOOSE t \in PossibleTurns : t.fault = "none"]

\* one request, with a turn for every record its two passes submit
PostSync ==
    \E request \in JiraPosterRequests :
        \E first \in TurnSeqs(Len(retry_pass(request, Spare).posted)) :
            \E second \in TurnSeqs(Len(posting_pass(request, first \o Spare).posted)) :
                PostVmsToJira(request, first \o second \o Spare)

NextPostSync == PostSync

SpecPostSync == InitPostRuns /\ [][NextPostSync]_vars

\* C36: in one post-to-jira request with retry_failed, no staging record is
\* submitted to the catalog twice: neither twice in a pass nor in the retry
\* pass and again in the posting pass
C36_RecordSubmittedOncePerRequest ==
    (call.fn = "post_vms_to_jira" /\ call.request.retry_failed) =>
        LET submitted == call.retry_posted \o call.posted
        IN  \A i, j \in 1..Len(submitted) : submitted[i] = submitted[j] => i = j

\* a record answered 201 in the retry pass stayed in staging and was
\* submitted again in the posting pass of the same request: the completed
\* collection holds it twice
C36_SubmittedInBothPasses ==
    /\ call.fn = "post_vms_to_jira"
    /\ call.request.retry_failed
    /\ \E id \in Ids(call.retry_posted) \cap Ids(call.posted) :
           Cardinality({k \in 1..Len(completed) : completed[k].original_id = id}) = 2

(***************************************************************************)
(* The tallies of one reconciliation run                                   *)
(***************************************************************************)
\* the VMs of the run's tallies: found, missing (the dict's keys), skipped
Classified == diff_result.found_by_ip + diff_result.missing_vms_count + diff_result.no_ip_vms

\* C37: after a reconciliation run the tallies partition the hypervisor VMs,
\* found_by_ip + missing VMs + VMs without a valid IP = total hypervisor VMs,
\* and the result has processed_missing_vms + errors = missing_vms_count, also
\* when two hypervisor VMs share a display name.
C37_ClassificationPartition ==
    AfterDiff =>
        /\ Classified = diff_result.total_vcenter_vms
        /\ diff_result.processed_missing_vms + diff_result.errors
               = diff_result.missing_vms_count

\* a run over two VMs of one display name, neither in the catalog, both with a
\* valid IP: one entry of the missing dict stands for both
C37_SharedNameCountedOnce ==
    /\ AfterDiff
    /\ Len(vcenter) = 2
    /\ diff_result.total_vcenter_vms = 2
    /\ NameOf(vcenter[1]) = NameOf(vcenter[2])
    /\ \A i \in 1..2 : has_valid_ip(vcenter[i]) /\ ~found_in_jira(vcenter[i], CatalogIpSet)
    /\ diff_result.missing_vms_count = 1
    /\ diff_result.processed_missing_vms = 1

(***************************************************************************)
(* A 201 whose insert into the completed collection fails                  *)
(***************************************************************************)
\* the turns of the request's posting pass answered 201 whose insert_one raised
InsertFailed ==
    {k \in 1..Len(call.log) : call.log[k].status_code = 201 /\ call.log[k].fault = "insert_fails"}

\* the turns of the posting pass the catalog answered 201
Created == {k \in 1..Len(call.log) : call.log[k].status_code = 201}

\* C38: when the catalog answers 201 and the insert into the completed
\* collection fails, the staging record stays as it was (not deleted, status
\* 'pending_creation', retry_count as before), and the run counts the VM among
\* its successful ones.
C38_InsertFailureLeavesStagingRecord ==
    call.fn = "post_vms_to_jira" =>
        /\ \A k \in InsertFailed :
               LET vm_doc == call.log[k].vm_doc
                   kept == {i \in 1..Len(missing) : missing[i]._id = vm_doc._id}
               IN  /\ Cardinality(kept) = 1
                   /\ \A i \in kept :
                          /\ missing[i] = vm_doc
                          /\ missing[i].status = "pending_creation"
        /\ call.successful = Cardinality(Created)

\* a posting pass of one record: the catalog created it, the insert failed, the
\* record is still pending in staging and the pass reports one success
C38_CountedButStillPending ==
    /\ call.fn = "post_vms_to_jira"
    /\ ~call.request.retry_failed
    /\ Len(call.log) = 1
    /\ InsertFailed = {1}
    /\ call.successful = 1
    /\ call.failed = 0
    /\ \E i \in 1..Len(missing) :
           missing[i]._id = call.log[1].vm_doc._id /\ missing[i].status = "pending_creation"
    /\ \A k \in 1..Len(completed) : completed[k].original_id # call.log[1].vm_doc._id

(***************************************************************************)
(* Retry exhaustion: every POST fails, no reconciliation run in between    *)
(***************************************************************************)
\* the catalog's answers other than a 201: an error status or a timeout
FailingAnswers == {a \in Answers : ~(a.kind = "http" /\ a.status_code = 201)}

\* the posting pass over the staging collection as reconciliation left it
FirstPass == ops = 0 /\ PostToJira

PostFailing == \E answer \in FailingAnswers : PostVm(answer, "none")

NextExhaust ==
    \/ FirstPass
    \/ PostFailing
    \/ RetryAtThreshold
    \/ RetryProcessVms

\* retry passes are repeated, and a pass that has started runs to its end
SpecExhaust ==
    /\ InitBare
    /\ [][NextExhaust]_vars
    /\ WF_vars(PostFailing)
    /\ WF_vars(RetryAtThreshold)
    /\ WF_vars(RetryProcessVms)

RetryCount(doc) == Get(doc, "retry_count", PyInt(0)).n

\* the staging records a retry pass at the threshold would take up
Retriable ==
    {i \in 1..Len(missing) : missing[i].status = "failed" /\ RetryCount(missing[i]) < RetryThreshold}

\* a step keeps every staging record, and none of them loses retry_count
CountsKept ==
    /\ Len(missing') = Len(missing)
    /\ \A i \in 1..Len(missing) :
           /\ missing'[i]._id = missing[i]._id
           /\ RetryCount(missing'[i]) >= RetryCount(missing[i])

\* an attempt is made on a record below the threshold and is counted on it
AttemptCounted ==
    PostTurn =>
        LET vm_doc == Head(poster.queue)
        IN  /\ RetryCount(vm_doc) < RetryThreshold
            /\ \A i \in 1..Len(missing) :
                   missing[i]._id = vm_doc._id =>
                       /\ RetryCount(missing[i]) = RetryCount(vm_doc)
                       /\ RetryCount(missing'[i]) = RetryCount(vm_doc) + 1

====
